---------------------------- MODULE Spec2Model ----------------------------
(***************************************************************************)
(* State-machine model of the Valorant bracket simulator.                   *)
(*                                                                         *)
(*   BracketSimulator  (src/src/bracket_simulator.py)                       *)
(*   ELOCalculator     (src/elo_calculator.py)                              *)
(*                                                                         *)
(* Team records are Python dicts that all_teams and teams share by          *)
(* reference: all_teams holds the records, teams holds indices into         *)
(* all_teams.  Team names are modelled by naturals and are unique within a  *)
(* roster.  A record's missing "seed" key is seed = 0.                      *)
(*                                                                         *)
(* random.random() < p is a nondeterministic choice of the winner among     *)
(* the two teams of the match.                                              *)
(***************************************************************************)
EXTENDS Integers, Sequences, FiniteSets, TLC

\* ------------------------------------------------------------------ bounds
\* Roster size of the simulation specification.
MaxTeams == 8
\* Trials started on one simulator object (direct calls plus run_simulation).
MaxTrials == 2
\* Matches simulated on one simulator object.
MaxMatches == 7
\* Calls of select_teams on one simulator object that also runs trials.
MaxSelects == 1
\* Calls of select_teams on one simulator object in the selection specification.
MaxReselects == 2
\* Roster size of the selection specification.
MaxRoster == 4
\* Maps one team can win in a match record.
MaxMaps == 2
\* Matches processed by one ELOCalculator object.
MaxHistory == 2
\* Records in the list handed to process_matches.
MaxRecords == 2
\* Training matches handed to validate_tournament.
MaxTraining == 3
\* Team names that can appear in the validated event.
MaxEventTeams == 5
\* Trials of predict_tournament_winner (n_simulations).
MaxSims == 4

\* Ratings a roster entry of the selection specification may carry.
RatingValues == {1500, 1600}

\* ---------------------------------------------------------------- helpers
Range(s) == {s[i] : i \in 1..Len(s)}

RECURSIVE SumOver(_, _)
SumOver(S, f) ==
    IF S = {} THEN 0
    ELSE LET x == CHOOSE y \in S : TRUE IN f[x] + SumOver(S \ {x}, f)

RECURSIVE Pow2(_)
Pow2(k) == IF k <= 0 THEN 1 ELSE 2 * Pow2(k - 1)

IsPowerOfTwo(n) == \E k \in 0..n : Pow2(k) = n

\* Python's s[:count], negative counts included.
SliceTo(s, count) ==
    LET n == Len(s)
        m == IF count >= 0 THEN (IF count < n THEN count ELSE n)
             ELSE (IF n + count > 0 THEN n + count ELSE 0)
    IN  SubSeq(s, 1, m)

\* ------------------------------------------------------- stable sorting
\* sorted(..., key=..., reverse=True) and list.sort(key=..., reverse=True):
\* descending by key, elements with equal keys keep their input order.
RECURSIVE InsertDescStable(_, _, _)
InsertDescStable(sorted, x, key) ==
    IF sorted = <<>> THEN <<x>>
    ELSE IF key[Head(sorted)] >= key[x]
         THEN <<Head(sorted)>> \o InsertDescStable(Tail(sorted), x, key)
         ELSE <<x>> \o sorted

RECURSIVE SortDescFrom(_, _, _)
SortDescFrom(acc, rest, key) ==
    IF rest = <<>> THEN acc
    ELSE SortDescFrom(InsertDescStable(acc, Head(rest), key), Tail(rest), key)

\* Descending sort that puts a later equal element first.
RECURSIVE InsertDescUnstable(_, _, _)
InsertDescUnstable(sorted, x, key) ==
    IF sorted = <<>> THEN <<x>>
    ELSE IF key[Head(sorted)] > key[x]
         THEN <<Head(sorted)>> \o InsertDescUnstable(Tail(sorted), x, key)
         ELSE <<x>> \o sorted

RECURSIVE SortDescUnstableFrom(_, _, _)
SortDescUnstableFrom(acc, rest, key) ==
    IF rest = <<>> THEN acc
    ELSE SortDescUnstableFrom(InsertDescUnstable(acc, Head(rest), key),
                              Tail(rest), key)

StableSortDescTiesReversed(items, key) == SortDescUnstableFrom(<<>>, items, key)

StableSortDesc(items, key) == SortDescFrom(<<>>, items, key)

\* ------------------------------------------------------------------ state
VARIABLES
    \* BracketSimulator fields
    elo_sigma,            \* performance noise; 0 stands for None and for sigma <= 0
    all_teams,            \* roster: sequence of [name, elo_rating, seed]
    teams,                \* selected bracket: sequence of indices into all_teams
    simulation_results,   \* name -> (key -> count), entries created on first use
    \* control
    pc,                   \* "idle" | "loop" | "while" | "play"
    caller,               \* "direct" | "run": who called the running trial
    run_n, run_i,         \* run_simulation's n and its loop index
    remaining_teams,      \* the trial's alive list (indices into all_teams)
    \* results of the last call
    last_call,            \* [op, arg] of the most recent API call
    raised,               \* exception of the most recent call, type "" if none
    champion,             \* team index returned by the last completed trial, 0 if none
    stats,                \* list returned by the last calculate_statistics
    \* history
    before,               \* simulation_results when the current/last trial began
    rounds,               \* rounds completed in the current/last trial
    matches,              \* matches played in the current/last trial
    completed,            \* trials returned since simulation_results was last reset
    selects,              \* select_teams calls on this simulator object
    started,              \* trials started on this simulator object
    played,               \* matches simulated on this simulator object
    \* ELOCalculator fields
    k_factor,             \* rating change multiplier
    use_map_scores,       \* TRUE: fractional scoring, FALSE: binary scoring
    ratings,              \* team name -> rating, entries created on first access
    match_history,        \* one record per update_ratings call, in call order
    pending,              \* process_matches: the records its loop has yet to visit
    supplied,             \* every record handed to process_matches so far, in order
    \* tournament_validator: arguments and locals of main, validate_tournament
    \* and predict_tournament_winner
    vpc,                  \* "off" | "main" | "simulate" | "round" | "report" | "done"
    has_event,            \* main: the validated event is in by_tournament
    training_matches,     \* validate_tournament: training match records
    tournament_matches,   \* validate_tournament: the event's own match records
    tournament_teams,     \* get_tournament_teams(tournament_matches)
    actual_winner,        \* validate_tournament: name of the actual winner
    n_simulations,        \* predict_tournament_winner: trials to run
    team_ratings,         \* calculate_elo_from_matches(...): name -> rating
    bracket_teams,        \* predict: names of the seeded bracket, best first
    pred_remaining,       \* predict: remaining, the alive list of the current trial
    win_counts,           \* predict: [name, count] in order of first win
    sim_i,                \* predict: trials finished
    predictions,          \* predict's return value: [name, prob] in dict order
    main_results,         \* main: results, the list of validate_tournament results
    output,               \* main: what was written to validation_results.json
    \* calls of the probability functions
    npc,                  \* the calls that have returned or raised
    arg_map_win_prob,     \* series_win_probability: map_win_prob
    arg_best_of,          \* series_win_probability: best_of
    ret_series_prob,      \* series_win_probability: the value returned
    ret_series_prob_a,    \* predict_tournament_winner: series_prob_a of a match
    arg_ratings,          \* expected_score / calculate_win_probability: the two ratings
    ret_win_prob,         \* expected_score / calculate_win_probability: the value returned
    num_raised,           \* exception a probability function raised, "" if none
    \* SimulationService.run_simulation
    svc_args,             \* run_simulation's arguments: teams_count (len(teams)),
                          \* num_simulations, serializable (json.dump accepts teams)
    svc_pc,               \* "off" | "created" | "running" | "simulating" | "returned" | "raised"
    svc_status,           \* sim.status as last committed
    svc_results,          \* sim.results as last committed
    svc_error,            \* sim.error_message as last committed
    temp_files,           \* temporary teams files on disk
    svc_exception         \* exception that reached the caller, "" if none

simVars == <<elo_sigma, all_teams, teams, simulation_results, pc, caller, run_n, run_i,
             remaining_teams, last_call, raised, champion, stats, before,
             rounds, matches, completed, started, played, selects>>

eloVars == <<k_factor, use_map_scores, ratings, match_history, pending, supplied>>

valVars == <<vpc, has_event, training_matches, tournament_matches,
             tournament_teams, actual_winner,
             n_simulations, team_ratings, bracket_teams, pred_remaining, win_counts,
             sim_i, predictions, main_results, output>>

numVars == <<npc, arg_map_win_prob, arg_best_of, ret_series_prob, ret_series_prob_a,
             arg_ratings, ret_win_prob, num_raised>>

svcVars == <<svc_args, svc_pc, svc_status, svc_results, svc_error, temp_files, svc_exception>>

vars == <<simVars, eloVars, valVars, numVars, svcVars>>

NoError == [type |-> "", requested |-> 0, available |-> 0]
IndexError == [type |-> "IndexError", requested |-> 0, available |-> 0]
ZeroDivisionError == [type |-> "ZeroDivisionError", requested |-> 0, available |-> 0]
\* The message with its two numbers exchanged.
ValueErrorSwapped(count, available) ==
    [type |-> "ValueError", requested |-> available, available |-> count]

\* ValueError(f"Requested {count} teams, but only {available} available.")
ValueError(count, available) ==
    [type |-> "ValueError", requested |-> count, available |-> available]

EmptyResults == <<>>

\* ------------------------------------------------------ counter dictionary
\* defaultdict(lambda: defaultdict(int)): a read through .get() sees 0 for a
\* missing key; "+= 1" creates the team entry and the key.
ChampionshipsKey == "championships"

\* f"Round_of_{teams_remaining}" and f"reached_Round_of_{teams_remaining}".
RoundOfNames ==
    <<"Round_of_1", "Round_of_2", "Round_of_3", "Round_of_4", "Round_of_5",
      "Round_of_6", "Round_of_7", "Round_of_8", "Round_of_9", "Round_of_10",
      "Round_of_11", "Round_of_12">>

ReachedRoundOfNames ==
    <<"reached_Round_of_1", "reached_Round_of_2", "reached_Round_of_3",
      "reached_Round_of_4", "reached_Round_of_5", "reached_Round_of_6",
      "reached_Round_of_7", "reached_Round_of_8", "reached_Round_of_9",
      "reached_Round_of_10", "reached_Round_of_11", "reached_Round_of_12">>

\* get_round_name with the Finals and Semifinals labels exchanged.
get_round_name_swapped(teams_remaining) ==
    IF teams_remaining = 2 THEN "Semifinals"
    ELSE IF teams_remaining = 4 THEN "Finals"
    ELSE IF teams_remaining = 8 THEN "Quarterfinals"
    ELSE IF teams_remaining = 16 THEN "Round_of_16"
    ELSE RoundOfNames[teams_remaining]

get_round_name(teams_remaining) ==
    IF teams_remaining = 2 THEN "Finals"
    ELSE IF teams_remaining = 4 THEN "Semifinals"
    ELSE IF teams_remaining = 8 THEN "Quarterfinals"
    ELSE IF teams_remaining = 16 THEN "Round_of_16"
    ELSE RoundOfNames[teams_remaining]

\* key = f"reached_{round_name}"
ReachedPrefix(round_name) ==
    IF round_name = "Finals" THEN "reached_Finals"
    ELSE IF round_name = "Semifinals" THEN "reached_Semifinals"
    ELSE IF round_name = "Quarterfinals" THEN "reached_Quarterfinals"
    ELSE IF round_name = "Round_of_16" THEN "reached_Round_of_16"
    ELSE LET n == CHOOSE i \in 1..Len(RoundOfNames) : RoundOfNames[i] = round_name
         IN  ReachedRoundOfNames[n]

ReachedKey(teams_remaining) == ReachedPrefix(get_round_name(teams_remaining))

HasCounter(results, name, key) ==
    /\ name \in DOMAIN results
    /\ key \in DOMAIN results[name]

Count(results, name, key) ==
    IF HasCounter(results, name, key) THEN results[name][key] ELSE 0

\* self.simulation_results[name] : creates an empty entry on first access.
Touch(results, name) ==
    IF name \in DOMAIN results THEN results
    ELSE [x \in DOMAIN results \cup {name} |->
            IF x = name THEN <<>> ELSE results[x]]

\* An increment that adds 2.
IncrementTwice(results, name, key) ==
    LET r == Touch(results, name)
        old == r[name]
        new == [k \in DOMAIN old \cup {key} |->
                  IF k = key THEN Count(results, name, key) + 2 ELSE old[k]]
    IN  [r EXCEPT ![name] = new]

\* self.simulation_results[name][key] += 1
Increment(results, name, key) ==
    LET r == Touch(results, name)
        old == r[name]
        new == [k \in DOMAIN old \cup {key} |->
                  IF k = key THEN Count(results, name, key) + 1 ELSE old[k]]
    IN  [r EXCEPT ![name] = new]

NameOf(i) == all_teams[i].name

\* track_advancement: one increment per entry of remaining_teams.
RECURSIVE TrackFold(_, _, _)
TrackFold(results, key, remaining) ==
    IF remaining = <<>> THEN results
    ELSE TrackFold(Increment(results, NameOf(Head(remaining)), key),
                   key, Tail(remaining))

\* A track_advancement that labels the round by the number of teams that
\* will be left after it.
track_advancement_next_size(results, teams_remaining, remaining) ==
    TrackFold(results, ReachedKey(teams_remaining \div 2), remaining)

track_advancement(results, teams_remaining, remaining) ==
    TrackFold(results, ReachedKey(teams_remaining), remaining)


\* ----------------------------------------------------------- select_teams
\* The loop with a strict comparison: while power * 2 < available.
RECURSIVE AutoPowerStrict(_, _)
AutoPowerStrict(power, available) ==
    IF power * 2 < available THEN AutoPowerStrict(power * 2, available) ELSE power

\* "largest power of 2 <= available" loop of select_teams(count=None).
RECURSIVE AutoPower(_, _)
AutoPower(power, available) ==
    IF power * 2 <= available THEN AutoPower(power * 2, available) ELSE power

AutoCount(available) == AutoPower(1, available)

RosterIndices == [i \in 1..Len(all_teams) |-> i]
RatingKey == [i \in 1..Len(all_teams) |-> all_teams[i].elo_rating]

\* Position of index i in the selected list, 0 if it is not selected.
PositionIn(sel, i) ==
    IF \E p \in 1..Len(sel) : sel[p] = i
    THEN CHOOSE p \in 1..Len(sel) : sel[p] = i
    ELSE 0

\* Ascending-rating selection.
SelectedByRatingAscending(count) ==
    SliceTo(StableSortDesc(RosterIndices, [i \in 1..Len(all_teams) |-> 0 - RatingKey[i]]),
            count)

\* sorted(self.all_teams, key=elo_rating, reverse=True)[:count]
SelectedByRating(count) ==
    SliceTo(StableSortDesc(RosterIndices, RatingKey), count)

\* for i, team in enumerate(self.teams, 1): team["seed"] = i
SeedOfPosition(p) == p

\* The locals of an earlier trial do not outlive the next call.
ForgetTrial ==
    /\ remaining_teams' = <<>>
    /\ before' = EmptyResults
    /\ rounds' = 0
    /\ matches' = 0

SelectTeamsBody(count, call) ==
    LET available == Len(all_teams) IN
    /\ pc = "idle"
    /\ selects' = selects + 1
    /\ last_call' = call
    /\ champion' = 0
    /\ stats' = <<>>
    /\ IF count > available
       THEN /\ raised' = ValueError(count, available)
            /\ UNCHANGED <<all_teams, teams>>
       ELSE /\ raised' = NoError
            /\ teams' = SelectedByRating(count)
            /\ all_teams' = [i \in 1..available |->
                               IF PositionIn(teams', i) # 0
                               THEN [all_teams[i] EXCEPT
                                       !.seed = SeedOfPosition(PositionIn(teams', i))]
                               ELSE all_teams[i]]
    /\ ForgetTrial
    /\ UNCHANGED <<simulation_results, pc, caller, run_n, run_i, completed,
                   started, played>>
    /\ UNCHANGED <<elo_sigma, eloVars, valVars, numVars, svcVars>>

\* select_teams(count) with an explicit count.
SelectTeams(count) ==
    SelectTeamsBody(count, [op |-> "select_teams", arg |-> count])

\* select_teams(count=None); last_call.arg records the resolved count.
SelectTeamsAuto ==
    SelectTeamsBody(AutoCount(Len(all_teams)),
                    [op |-> "select_teams_auto", arg |-> AutoCount(Len(all_teams))])

\* ------------------------------------------------------------ simulation
\* simulate_match returns team_a or team_b: the series probability decides
\* only how likely each is.
simulate_match(team_a, team_b) == {team_a, team_b}

\* Number of complete pairs (2i, 2i+1) of the alive list.
PairsOf(remaining) == Len(remaining) \div 2

\* A for-loop that steps by one: positions (1,2), (2,3), ... are paired.
NextRoundListsStepOne(remaining) ==
    {[i \in 1..(Len(remaining) - 1) |-> IF pick[i] THEN remaining[i] ELSE remaining[i + 1]] :
        pick \in [1..(Len(remaining) - 1) -> BOOLEAN]}

\* The lists the for-loop of a round can build: entry i is the winner of the
\* match between positions 2i-1 and 2i (1-based) of the alive list.
NextRoundLists(remaining) ==
    LET Winners(i) == simulate_match(remaining[2 * i - 1], remaining[2 * i])
        Picks == [1..PairsOf(remaining) -> BOOLEAN]
        Winner(i, first) ==
            IF first THEN CHOOSE w \in Winners(i) : w = remaining[2 * i - 1]
            ELSE CHOOSE w \in Winners(i) : w = remaining[2 * i]
    IN  {[i \in 1..PairsOf(remaining) |-> Winner(i, pick[i])] : pick \in Picks}

\* Entry point of simulate_tournament_with_tracking: remaining_teams =
\* self.teams.copy().
BeginTrial(who) ==
    /\ remaining_teams' = teams
    /\ before' = simulation_results
    /\ rounds' = 0
    /\ matches' = 0
    /\ champion' = 0
    /\ caller' = who
    /\ started' = started + 1
    /\ pc' = "while"

\* Matches a trial on the selected bracket can take.
MatchesNeeded == IF Len(teams) > 1 THEN Len(teams) - 1 ELSE 0

\* A direct call of simulate_tournament_with_tracking.
SimulateTournament ==
    /\ pc = "idle"
    /\ started < MaxTrials
    /\ played + MatchesNeeded <= MaxMatches
    /\ BeginTrial("direct")
    /\ last_call' = [op |-> "simulate_tournament_with_tracking", arg |-> 0]
    /\ raised' = NoError
    /\ stats' = <<>>
    /\ UNCHANGED <<all_teams, teams, simulation_results, run_n, run_i, completed,
                   played, selects>>
    /\ UNCHANGED <<elo_sigma, eloVars, valVars, numVars, svcVars>>


\* A run_simulation that keeps the counters of earlier trials.
KeptResults(results) == results

\* self.simulation_results = defaultdict(lambda: defaultdict(int))
FreshResults(results) == EmptyResults

\* run_simulation(n): reset the counters, then loop.
RunSimulation(n) ==
    /\ pc = "idle"
    /\ started + n <= MaxTrials
    /\ played + n * MatchesNeeded <= MaxMatches
    /\ simulation_results' = FreshResults(simulation_results)
    /\ completed' = 0
    /\ run_n' = n
    /\ run_i' = 0
    /\ pc' = "loop"
    /\ caller' = "run"
    /\ last_call' = [op |-> "run_simulation", arg |-> n]
    /\ raised' = NoError
    /\ champion' = 0
    /\ stats' = <<>>
    /\ ForgetTrial
    /\ UNCHANGED <<all_teams, teams, started, played, selects>>
    /\ UNCHANGED <<elo_sigma, eloVars, valVars, numVars, svcVars>>

\* for _ in range(n): self.simulate_tournament_with_tracking()
LoopNextTrial ==
    /\ pc = "loop"
    /\ run_i < run_n
    /\ BeginTrial("run")
    /\ UNCHANGED <<all_teams, teams, simulation_results, run_n, run_i,
                   last_call, raised, stats, completed, played,
                   selects>>
    /\ UNCHANGED <<elo_sigma, eloVars, valVars, numVars, svcVars>>

\* while len(remaining_teams) > 1: self.track_advancement(...)
TrackAdvancement ==
    /\ pc = "while"
    /\ Len(remaining_teams) > 1
    /\ simulation_results' =
           track_advancement(simulation_results, Len(remaining_teams),
                             remaining_teams)
    /\ pc' = "play"
    /\ UNCHANGED <<all_teams, teams, caller, run_n, run_i, remaining_teams,
                   last_call, raised, champion, stats, before, rounds, matches,
                   completed, started, played, selects>>
    /\ UNCHANGED <<elo_sigma, eloVars, valVars, numVars, svcVars>>

\* random.gauss(0, self.elo_sigma) when elo_sigma is set and positive: one
\* draw below and one above zero stand for the distribution.
NoiseValues == IF elo_sigma > 0 THEN {0 - elo_sigma, elo_sigma} ELSE {0}

\* The draws of the matches of a round, two per match.
NoiseLists(drawn) == [1..drawn -> NoiseValues]

\* simulate_match that stores the noisy rating in the team record.
RosterWithNoiseWritten(roster, alive, noise) ==
    [i \in 1..Len(roster) |->
        IF \E p \in 1..Len(noise) : alive[p] = i
        THEN [roster[i] EXCEPT !.elo_rating = @ + noise[PositionIn(alive, i)]]
        ELSE roster[i]]

\* The roster after the matches of a round: ra and rb are locals of
\* simulate_match ("ra += ..." rebinds the local), no team record is written.
RosterAfterMatches(roster, alive, noise) == roster

\* self.teams = next_round_teams in place of the local.
SelfTeamsAliased(bracket, next_round_teams) == next_round_teams

\* self.teams after a round: "remaining_teams = next_round_teams" rebinds the
\* local that began as self.teams.copy(); self.teams is not assigned.
SelfTeamsAfterRound(bracket, next_round_teams) == bracket

\* The for-loop of one round on an even alive list.
PlayRound ==
    /\ pc = "play"
    /\ Len(remaining_teams) % 2 = 0
    /\ \E next_round_teams \in NextRoundLists(remaining_teams) :
           /\ remaining_teams' = next_round_teams
           /\ teams' = SelfTeamsAfterRound(teams, next_round_teams)
    /\ \E noise \in NoiseLists(2 * PairsOf(remaining_teams)) :
           all_teams' = RosterAfterMatches(all_teams, remaining_teams, noise)
    /\ rounds' = rounds + 1
    /\ matches' = matches + PairsOf(remaining_teams)
    /\ played' = played + PairsOf(remaining_teams)
    /\ pc' = "while"
    /\ UNCHANGED <<simulation_results, caller, run_n, run_i,
                   last_call, raised, champion, stats, before, completed,
                   started, selects>>
    /\ UNCHANGED <<elo_sigma, eloVars, valVars, numVars, svcVars>>

\* The for-loop of one round on an odd alive list: the complete pairs are
\* played, then remaining_teams[i + 1] is out of range.  The exception leaves
\* simulate_tournament_with_tracking and, under run_simulation, that too.
PlayRoundIndexError ==
    /\ pc = "play"
    /\ Len(remaining_teams) % 2 = 1
    /\ matches' = matches + PairsOf(remaining_teams)
    /\ played' = played + PairsOf(remaining_teams)
    /\ raised' = IndexError
    /\ pc' = "idle"
    /\ \E noise \in NoiseLists(2 * PairsOf(remaining_teams)) :
           all_teams' = RosterAfterMatches(all_teams, remaining_teams, noise)
    /\ UNCHANGED <<teams, simulation_results, caller, run_n, run_i,
                   remaining_teams, last_call, champion, stats, before, rounds,
                   completed, started, selects>>
    /\ UNCHANGED <<elo_sigma, eloVars, valVars, numVars, svcVars>>

\* Credits a championship to every team of the bracket.
CreditChampionAll(results, champ) ==
    TrackFold(results, ChampionshipsKey, teams)

\* Credits the championship to the top seed, whoever won.
CreditTopSeed(results, champ) ==
    Increment(results, NameOf(teams[1]), ChampionshipsKey)

\* self.simulation_results[champion["name"]]["championships"] += 1
CreditChampion(results, champ) ==
    Increment(results, NameOf(champ), ChampionshipsKey)

\* Loop exit with one team left: champion = remaining_teams[0], credit, return.
Crown ==
    /\ pc = "while"
    /\ Len(remaining_teams) = 1
    /\ champion' = remaining_teams[1]
    /\ simulation_results' = CreditChampion(simulation_results, remaining_teams[1])
    /\ completed' = completed + 1
    /\ IF caller = "run"
       THEN /\ run_i' = run_i + 1
            /\ pc' = "loop"
       ELSE /\ run_i' = run_i
            /\ pc' = "idle"
    /\ UNCHANGED <<all_teams, teams, caller, run_n, remaining_teams, last_call,
                   raised, stats, before, rounds, matches, started, played, selects>>
    /\ UNCHANGED <<elo_sigma, eloVars, valVars, numVars, svcVars>>

\* Loop exit with no team at all: remaining_teams[0] raises IndexError.
CrownIndexError ==
    /\ pc = "while"
    /\ Len(remaining_teams) = 0
    /\ raised' = IndexError
    /\ pc' = "idle"
    /\ UNCHANGED <<all_teams, teams, simulation_results, caller, run_n, run_i,
                   remaining_teams, last_call, champion, stats, before, rounds,
                   matches, completed, started, played, selects>>
    /\ UNCHANGED <<elo_sigma, eloVars, valVars, numVars, svcVars>>

\* ------------------------------------------------------ calculate_statistics
\* round(100.0 * count / total, 2), in hundredths of a percent.  Rounds half
\* up; Python rounds the float's nearest-even, which differs only when
\* 10000 * count / total ends in exactly .5, never for total <= 4.
pct(count, total) == (20000 * count + total) \div (2 * total)

TeamStats(results, i, total) ==
    LET name == NameOf(i) IN
    [name |-> name,
     seed |-> all_teams[i].seed,
     elo_rating |-> all_teams[i].elo_rating,
     championship_prob |-> pct(Count(results, name, ChampionshipsKey), total),
     finals_prob |-> pct(Count(results, name, "reached_Finals"), total),
     semifinals_prob |-> pct(Count(results, name, "reached_Semifinals"), total),
     quarterfinals_prob |-> pct(Count(results, name, "reached_Quarterfinals"), total),
     round_of_16_prob |-> pct(Count(results, name, "reached_Round_of_16"), total)]

UnsortedStats(results, total) ==
    [p \in 1..Len(teams) |-> TeamStats(results, teams[p], total)]

\* stats.sort(key=championship_prob, reverse=True) whose equal elements come
\* out in reverse input order.
SortedStatsTiesReversed(unsorted) ==
    LET order == StableSortDescTiesReversed([p \in 1..Len(unsorted) |-> p],
                     [p \in 1..Len(unsorted) |-> unsorted[p].championship_prob])
    IN  [q \in 1..Len(unsorted) |-> unsorted[order[q]]]

\* stats.sort(key=lambda t: t["championship_prob"], reverse=True)
SortedStats(unsorted) ==
    LET order == StableSortDesc([p \in 1..Len(unsorted) |-> p],
                     [p \in 1..Len(unsorted) |-> unsorted[p].championship_prob])
    IN  [q \in 1..Len(unsorted) |-> unsorted[order[q]]]

RECURSIVE TouchAll(_, _)
TouchAll(results, sel) ==
    IF sel = <<>> THEN results
    ELSE TouchAll(Touch(results, NameOf(Head(sel))), Tail(sel))

\* End of run_simulation's loop: stats = self.calculate_statistics(n).
CalculateStatistics ==
    /\ pc = "loop"
    /\ run_i = run_n
    /\ run_n > 0 \/ teams = <<>>
    /\ stats' = IF teams = <<>> THEN <<>>
                ELSE SortedStats(UnsortedStats(simulation_results, run_n))
    /\ simulation_results' = TouchAll(simulation_results, teams)
    /\ champion' = 0
    /\ pc' = "idle"
    /\ UNCHANGED <<all_teams, teams, caller, run_n, run_i, remaining_teams,
                   last_call, raised, before, rounds, matches, completed,
                   started, played, selects>>
    /\ UNCHANGED <<elo_sigma, eloVars, valVars, numVars, svcVars>>

\* run_simulation(0) on a non-empty bracket: the first pct divides by zero,
\* after simulation_results[name] created the first team's entry.
CalculateStatisticsZeroDivision ==
    /\ pc = "loop"
    /\ run_i = run_n
    /\ run_n = 0
    /\ teams # <<>>
    /\ simulation_results' = Touch(simulation_results, NameOf(teams[1]))
    /\ raised' = ZeroDivisionError
    /\ pc' = "idle"
    /\ UNCHANGED <<all_teams, teams, caller, run_n, run_i, remaining_teams,
                   last_call, champion, stats, before, rounds, matches,
                   completed, started, played, selects>>
    /\ UNCHANGED <<elo_sigma, eloVars, valVars, numVars, svcVars>>

\* ------------------------------------------------------ SimulationService
\* sim.results before anything is stored (None); json.dumps(results) is
\* stored as [stored |-> TRUE, value |-> results].
NoResults == [stored |-> FALSE, value |-> <<>>]

\* str(e) of the exceptions the call can meet.
ErrorMessage(type) ==
    IF type = "IndexError" THEN "list index out of range"
    ELSE IF type = "ZeroDivisionError" THEN "float division by zero"
    ELSE "Object of type set is not JSON serializable"

\* The teams the caller passes: team i of the list, seeded i by
\* "for i, team in enumerate(simulator.teams, 1): team['seed'] = i".
ServiceTeams(count) ==
    [i \in 1..count |-> [name |-> i, elo_rating |-> 1500 + 100 * (i % 3), seed |-> i]]

\* self.db.add(sim); self.db.commit() with status PENDING.
ServiceCreateRecord ==
    /\ svc_pc = "off"
    /\ svc_status = "none"
    /\ svc_status' = "pending"
    /\ svc_pc' = "created"
    /\ UNCHANGED <<svc_args, svc_results, svc_error, temp_files, svc_exception>>
    /\ UNCHANGED <<simVars, eloVars, valVars, numVars>>

\* sim.status = RUNNING; commit.
ServiceMarkRunning ==
    /\ svc_pc = "created"
    /\ svc_status' = "running"
    /\ svc_pc' = "running"
    /\ UNCHANGED <<svc_args, svc_results, svc_error, temp_files, svc_exception>>
    /\ UNCHANGED <<simVars, eloVars, valVars, numVars>>

\* The except clause: status FAILED, error_message = str(e), commit, raise.
ServiceExcept(type) ==
    /\ svc_status' = "failed"
    /\ svc_error' = ErrorMessage(type)
    /\ svc_exception' = type
    /\ svc_pc' = "raised"

\* with tempfile.NamedTemporaryFile(..., delete=False) as f: the file is
\* created, json.dump(teams_data, f) writes it and temp_file = f.name; then
\* BracketSimulator(teams_file=temp_file), simulator.teams = teams, seeds,
\* and run_simulation(n) resets the counters and enters its loop.  When
\* json.dump raises, temp_file is never bound and the inner try/finally is
\* never entered: control goes to the except clause.
ServiceWriteTeamsFile ==
    /\ svc_pc = "running"
    /\ temp_files' = temp_files + 1
    /\ IF svc_args.serializable
       THEN /\ svc_pc' = "simulating"
            /\ all_teams' = ServiceTeams(svc_args.teams_count)
            /\ teams' = [i \in 1..svc_args.teams_count |-> i]
            /\ simulation_results' = FreshResults(simulation_results)
            /\ completed' = 0
            /\ run_n' = svc_args.num_simulations
            /\ run_i' = 0
            /\ pc' = "loop"
            /\ caller' = "run"
            /\ last_call' = [op |-> "run_simulation", arg |-> svc_args.num_simulations]
            /\ raised' = NoError
            /\ champion' = 0
            /\ stats' = <<>>
            /\ ForgetTrial
            /\ UNCHANGED <<svc_status, svc_error, svc_exception>>
       ELSE /\ ServiceExcept("TypeError")
            /\ UNCHANGED <<all_teams, teams, simulation_results, pc, caller, run_n,
                           run_i, remaining_teams, last_call, raised, champion,
                           stats, before, rounds, matches, completed>>
    /\ UNCHANGED <<svc_args, svc_results>>
    /\ UNCHANGED <<elo_sigma, selects, started, played>>
    /\ UNCHANGED <<eloVars, valVars, numVars>>

\* run_simulation returned: sim.results = json.dumps(results), status
\* COMPLETED, commit, return; the finally clause removes the file.
ServiceStoreResults ==
    /\ svc_pc = "simulating"
    /\ pc = "idle"
    /\ raised = NoError
    /\ svc_results' = [stored |-> TRUE, value |-> stats]
    /\ svc_status' = "completed"
    /\ temp_files' = temp_files - 1
    /\ svc_pc' = "returned"
    /\ UNCHANGED <<svc_args, svc_error, svc_exception>>
    /\ UNCHANGED <<simVars, eloVars, valVars, numVars>>

\* run_simulation raised: the finally clause removes the file, then the
\* except clause records the failure and raises again.
ServiceSimulationFailed ==
    /\ svc_pc = "simulating"
    /\ pc = "idle"
    /\ raised # NoError
    /\ temp_files' = temp_files - 1
    /\ ServiceExcept(raised.type)
    /\ UNCHANGED <<svc_args, svc_results>>
    /\ UNCHANGED <<simVars, eloVars, valVars, numVars>>

\* ------------------------------------------------- floating-point numbers
\* Python floats are binary floating-point numbers; every operation returns
\* the representable number nearest to the exact result, ties to the even
\* mantissa.  The model keeps MantissaBits significant bits where binary64
\* keeps 53: a float is m * 2^e with 2^(MantissaBits-1) <= m < 2^MantissaBits,
\* or zero.
MantissaBits == 6

MantissaMin == Pow2(MantissaBits - 1)
MantissaMax == Pow2(MantissaBits)

FloatZero == [m |-> 0, e |-> 0]
FloatOne == [m |-> MantissaMin, e |-> 1 - MantissaBits]

\* Bits to drop from n to leave MantissaBits bits.
RECURSIVE ShiftOf(_)
ShiftOf(n) == IF n < MantissaMax THEN 0 ELSE 1 + ShiftOf(n \div 2)

\* The float nearest to n * 2^e, n >= 0.
RECURSIVE RoundFloat(_, _)
RoundFloat(n, e) ==
    IF n = 0 THEN FloatZero
    ELSE IF n < MantissaMin THEN RoundFloat(2 * n, e - 1)
    ELSE IF n < MantissaMax THEN [m |-> n, e |-> e]
    ELSE LET k == ShiftOf(n)
             q == n \div Pow2(k)
             r == n % Pow2(k)
             up == 2 * r > Pow2(k) \/ (2 * r = Pow2(k) /\ q % 2 = 1)
         IN  IF ~up THEN [m |-> q, e |-> e + k]
             ELSE IF q + 1 = MantissaMax THEN [m |-> MantissaMin, e |-> e + k + 1]
             ELSE [m |-> q + 1, e |-> e + k]

\* a * b
FloatMul(a, b) == RoundFloat(a.m * b.m, a.e + b.e)

RECURSIVE IntPow(_, _)
IntPow(n, k) == IF k = 0 THEN 1 ELSE n * IntPow(n, k - 1)

\* a ** k for an int k >= 0: the power correctly rounded; x ** 0 is 1.0.
FloatPow(a, k) == IF k = 0 THEN FloatOne ELSE RoundFloat(IntPow(a.m, k), k * a.e)

\* Exponent gap beyond which the smaller operand is below a quarter of the
\* last place of the larger one.
AlignLimit == 4 * MantissaBits

\* a + b for a, b >= 0
FloatAdd(a, b) ==
    IF a.m = 0 THEN b
    ELSE IF b.m = 0 THEN a
    ELSE IF a.e >= b.e
    THEN (IF a.e - b.e > AlignLimit THEN a
          ELSE RoundFloat(a.m * Pow2(a.e - b.e) + b.m, b.e))
    ELSE (IF b.e - a.e > AlignLimit THEN b
          ELSE RoundFloat(b.m * Pow2(b.e - a.e) + a.m, a.e))

\* a - b for a >= b >= 0
FloatSub(a, b) ==
    IF b.m = 0 THEN a
    ELSE IF a.e - b.e > AlignLimit THEN a
    ELSE RoundFloat(a.m * Pow2(a.e - b.e) - b.m, b.e)

\* math.comb(n, k)
RECURSIVE Comb(_, _)
Comb(n, k) ==
    IF k = 0 \/ k = n THEN 1 ELSE Comb(n - 1, k - 1) + Comb(n - 1, k)

\* The loop of series_win_probability from k on:
\* series_prob += math.comb(best_of, k) * (p ** k) * (q ** (best_of - k))
RECURSIVE SeriesLoop(_, _, _, _, _)
SeriesLoop(series_prob, p, q, best_of, k) ==
    IF k > best_of THEN series_prob
    ELSE SeriesLoop(FloatAdd(series_prob,
                             FloatMul(FloatMul(RoundFloat(Comb(best_of, k), 0),
                                               FloatPow(p, k)),
                                      FloatPow(q, best_of - k))),
                    p, q, best_of, k + 1)

\* wins_needed = best_of // 2: a series decided one win early.
series_win_probability_one_win_short(map_win_prob, best_of) ==
    IF best_of <= 1 THEN map_win_prob
    ELSE SeriesLoop(FloatZero, map_win_prob, FloatSub(FloatOne, map_win_prob),
                    best_of, best_of \div 2)

\* BracketSimulator.series_win_probability(map_win_prob, best_of)
series_win_probability(map_win_prob, best_of) ==
    IF best_of <= 1 THEN map_win_prob
    ELSE SeriesLoop(FloatZero, map_win_prob, FloatSub(FloatOne, map_win_prob),
                    best_of, best_of \div 2 + 1)


\* p_win_2_1 = (map_prob_a ** 2) * (1 - map_prob_a): one of the two 2-1 orders.
predict_series_prob_a_one_order(map_prob_a) ==
    FloatAdd(FloatPow(map_prob_a, 2),
             FloatMul(FloatPow(map_prob_a, 2), FloatSub(FloatOne, map_prob_a)))

\* predict_tournament_winner, "BO3 probability":
\* p_win_2_0 + p_win_2_1 with p_win_2_1 = 2 * (map_prob_a ** 2) * (1 - map_prob_a)
predict_series_prob_a(map_prob_a) ==
    LET p_win_2_0 == FloatPow(map_prob_a, 2)
        p_win_2_1 == FloatMul(FloatMul(RoundFloat(2, 0), FloatPow(map_prob_a, 2)),
                              FloatSub(FloatOne, map_prob_a))
    IN  FloatAdd(p_win_2_0, p_win_2_1)


\* a / b for b > 0: one extra quotient bit and a sticky bit decide the rounding.
FloatDiv(a, b) ==
    IF a.m = 0 THEN FloatZero
    ELSE LET n == a.m * Pow2(MantissaBits + 2)
             sticky == IF n % b.m = 0 THEN 0 ELSE 1
         IN  RoundFloat(2 * (n \div b.m) + sticky, a.e - b.e - MantissaBits - 3)

\* Working precision of the power 10 ** x before it is rounded to a float.
WideBits == 15

RECURSIVE Narrow(_, _)
Narrow(n, e) == IF n < Pow2(WideBits) THEN [m |-> n, e |-> e] ELSE Narrow(n \div 2, e + 1)

\* x * y in working precision.
WideMul(x, y) == Narrow(x.m * y.m, x.e + y.e)

\* 10 ** k for an int k >= 0, in working precision, by squaring.
RECURSIVE Pow10Wide(_)
Pow10Wide(k) ==
    IF k = 0 THEN [m |-> 1, e |-> 0]
    ELSE IF k % 2 = 1 THEN WideMul([m |-> 10, e |-> 0], Pow10Wide(k - 1))
    ELSE WideMul(Pow10Wide(k \div 2), Pow10Wide(k \div 2))

\* sys.float_info.max_exp: a float is below 2^MaxExponent; a power beyond
\* that raises OverflowError.
MaxExponent == 1024

Overflows(x) == x.m # 0 /\ x.e + MantissaBits > MaxExponent

\* Rating gaps are taken in steps of 400.0 points, so that the exponent
\* (team_b_rating - team_a_rating) / 400.0 is a whole number.
RatingStep == 400

\* 10 ** ((team_b_rating - team_a_rating) / 400.0)
PowerOfTen(team_a_rating, team_b_rating) ==
    LET x == (team_b_rating - team_a_rating) \div RatingStep
    IN  IF x >= 0 THEN RoundFloat(Pow10Wide(x).m, Pow10Wide(x).e)
        ELSE FloatDiv(FloatOne, RoundFloat(Pow10Wide(0 - x).m, Pow10Wide(0 - x).e))

\* BracketSimulator.calculate_win_probability, and ELOCalculator.expected_score
\* as Python evaluates it:
\* return 1.0 / (1.0 + 10 ** ((team_b_rating - team_a_rating) / 400.0))
calculate_win_probability(team_a_rating, team_b_rating) ==
    FloatDiv(FloatOne, FloatAdd(FloatOne, PowerOfTen(team_a_rating, team_b_rating)))

\* A call of calculate_win_probability returns or raises.
CalculateWinProbability ==
    /\ Len(arg_ratings) = 2
    /\ npc = {}
    /\ npc' = {"calculate_win_probability"}
    /\ IF Overflows(PowerOfTen(arg_ratings[1], arg_ratings[2]))
       THEN /\ num_raised' = "OverflowError"
            /\ UNCHANGED ret_win_prob
       ELSE /\ ret_win_prob' = calculate_win_probability(arg_ratings[1], arg_ratings[2])
            /\ UNCHANGED num_raised
    /\ UNCHANGED <<arg_map_win_prob, arg_best_of, ret_series_prob, ret_series_prob_a,
                   arg_ratings>>
    /\ UNCHANGED <<simVars, eloVars, valVars, svcVars>>

\* A call of ELOCalculator.expected_score(rating_a, rating_b) returns or raises.
ExpectedScore ==
    /\ Len(arg_ratings) = 2
    /\ npc = {}
    /\ npc' = {"expected_score"}
    /\ IF Overflows(PowerOfTen(arg_ratings[1], arg_ratings[2]))
       THEN /\ num_raised' = "OverflowError"
            /\ UNCHANGED ret_win_prob
       ELSE /\ ret_win_prob' = calculate_win_probability(arg_ratings[1], arg_ratings[2])
            /\ UNCHANGED num_raised
    /\ UNCHANGED <<arg_map_win_prob, arg_best_of, ret_series_prob, ret_series_prob_a,
                   arg_ratings>>
    /\ UNCHANGED <<simVars, eloVars, valVars, svcVars>>

\* simulate_match: p_a_series = self.series_win_probability(p_a_map, self.best_of)
\* after calculate_win_probability returned p_a_map.
SimulateMatchSeries ==
    /\ npc = {"calculate_win_probability"}
    /\ num_raised = ""
    /\ npc' = npc \cup {"simulate_match"}
    /\ arg_map_win_prob' = ret_win_prob
    /\ ret_series_prob' = series_win_probability(ret_win_prob, arg_best_of)
    /\ UNCHANGED <<arg_best_of, ret_series_prob_a, arg_ratings, ret_win_prob, num_raised>>
    /\ UNCHANGED <<simVars, eloVars, valVars, svcVars>>

\* A call of series_win_probability returns.
SeriesWinProbability ==
    /\ "series_win_probability" \notin npc
    /\ arg_best_of # 0
    /\ arg_ratings = <<>>
    /\ ret_series_prob' = series_win_probability(arg_map_win_prob, arg_best_of)
    /\ npc' = npc \cup {"series_win_probability"}
    /\ UNCHANGED <<arg_map_win_prob, arg_best_of, ret_series_prob_a, arg_ratings,
                   ret_win_prob, num_raised>>
    /\ UNCHANGED <<simVars, eloVars, valVars, svcVars>>

\* predict_tournament_winner computes series_prob_a of a match.
PredictSeriesProb ==
    /\ "predict_tournament_winner" \notin npc
    /\ arg_best_of # 0
    /\ arg_ratings = <<>>
    /\ ret_series_prob_a' = predict_series_prob_a(arg_map_win_prob)
    /\ npc' = npc \cup {"predict_tournament_winner"}
    /\ UNCHANGED <<arg_map_win_prob, arg_best_of, ret_series_prob, arg_ratings,
                   ret_win_prob, num_raised>>
    /\ UNCHANGED <<simVars, eloVars, valVars, svcVars>>

\* ------------------------------------------------------------ ELOCalculator
\* Ratings and scores are fixed-point numbers: a score is a multiple of
\* 1/ScoreScale, a rating a multiple of 1/ScoreScale rating points.  Every
\* quotient maps_won / total_maps with total_maps <= 8 is exact at this scale.
ScoreScale == 840

\* ELOCalculator.__init__ defaults.
DefaultKFactor == 32
InitialRatingPoints == 1500

InitialRating == InitialRatingPoints * ScoreScale

\* The logistic curve 1 / (1 + 10 ** (d / 400)) sampled every LogisticStep
\* rating points for d = -800 .. 800 and rounded to the nearest 1/ScoreScale;
\* entry b + 33 is the value at d = LogisticStep * b.
LogisticStep == 25
LogisticHalfWidth == 32

LogisticTable ==
    <<832, 830, 829, 827, 825, 823, 821, 818, 814, 810, 806, 801, 795, 789,
      781, 773, 764, 753, 741, 728, 713, 697, 679, 659, 638, 615, 591, 565,
      538, 509, 480, 450, 420, 390, 360, 331, 302, 275, 249, 225, 202, 181,
      161, 143, 127, 112, 99, 87, 76, 67, 59, 51, 45, 39, 34, 30, 26, 22, 19,
      17, 15, 13, 11, 10, 8>>

Abs(x) == IF x < 0 THEN 0 - x ELSE x

\* Nearest sample point of a rating difference, clamped to the table.
LogisticBucket(diff) ==
    LET step == LogisticStep * ScoreScale
        mag == (2 * Abs(diff) + step) \div (2 * step)
        clamped == IF mag > LogisticHalfWidth THEN LogisticHalfWidth ELSE mag
    IN  IF diff < 0 THEN 0 - clamped ELSE clamped

\* expected_score(rating_a, rating_b) = 1 / (1 + 10 ** ((rating_b - rating_a) / 400))
expected_score(rating_a, rating_b) ==
    LogisticTable[LogisticBucket(rating_b - rating_a) + LogisticHalfWidth + 1]

\* Python's a / b on the fixed-point scale, for either sign of b # 0.
TrueDiv(a, b) == IF b < 0 THEN (0 - a) \div (0 - b) ELSE a \div b

\* Binary mode with ">=" in place of ">": a drawn series scores a win.
calculate_actual_score_draw_wins(maps_won, maps_lost) ==
    IF ~use_map_scores
    THEN (IF maps_won >= maps_lost THEN ScoreScale ELSE 0)
    ELSE IF maps_won + maps_lost = 0 THEN ScoreScale \div 2
    ELSE TrueDiv(maps_won * ScoreScale, maps_won + maps_lost)

calculate_actual_score(maps_won, maps_lost) ==
    IF ~use_map_scores
    THEN (IF maps_won > maps_lost THEN ScoreScale ELSE 0)
    ELSE IF maps_won + maps_lost = 0 THEN ScoreScale \div 2
    ELSE TrueDiv(maps_won * ScoreScale, maps_won + maps_lost)

\* self.ratings[team] on the defaultdict: a missing team is entered at the
\* initial rating.
RatingEntry(table, team) ==
    IF team \in DOMAIN table THEN table
    ELSE [t \in DOMAIN table \cup {team} |->
            IF t = team THEN InitialRating ELSE table[t]]

\* The body of update_ratings(team_a, team_b, team_a_maps, team_b_maps).
update_ratings(team_a, team_b, team_a_maps, team_b_maps) ==
    LET table == RatingEntry(RatingEntry(ratings, team_a), team_b)
        rating_a == table[team_a]
        rating_b == table[team_b]
        expected_a == expected_score(rating_a, rating_b)
        expected_b == expected_score(rating_b, rating_a)
        actual_a == calculate_actual_score(team_a_maps, team_b_maps)
        actual_b == calculate_actual_score(team_b_maps, team_a_maps)
        new_rating_a == rating_a + k_factor * (actual_a - expected_a)
        new_rating_b == rating_b + k_factor * (actual_b - expected_b)
    IN  /\ ratings' = [[table EXCEPT ![team_a] = new_rating_a]
                          EXCEPT ![team_b] = new_rating_b]
        /\ match_history' = Append(match_history,
               [team_a |-> team_a,
                team_b |-> team_b,
                score |-> <<team_a_maps, team_b_maps>>,
                rating_a_before |-> rating_a,
                rating_b_before |-> rating_b,
                rating_a_after |-> new_rating_a,
                rating_b_after |-> new_rating_b,
                rating_change_a |-> new_rating_a - rating_a,
                rating_change_b |-> new_rating_b - rating_b])

\* A direct call of update_ratings.
UpdateRatings(team_a, team_b, team_a_maps, team_b_maps) ==
    /\ pending = <<>>
    /\ update_ratings(team_a, team_b, team_a_maps, team_b_maps)
    /\ UNCHANGED <<k_factor, use_map_scores, pending, supplied>>
    /\ UNCHANGED <<simVars, valVars, numVars, svcVars>>

\* One pass of process_matches' loop: for match in matches:
\* self.update_ratings(match["team_a"], match["team_b"], match["score_a"],
\* match["score_b"]).
ProcessMatchesStep ==
    /\ pending # <<>>
    /\ update_ratings(Head(pending).team_a, Head(pending).team_b,
                      Head(pending).score_a, Head(pending).score_b)
    /\ pending' = Tail(pending)
    /\ UNCHANGED <<k_factor, use_map_scores, supplied>>
    /\ UNCHANGED <<simVars, valVars, numVars, svcVars>>

\* get_rating(team_name): self.ratings.get(team_name, self.initial_rating)
get_rating(team_name) ==
    IF team_name \in DOMAIN ratings THEN ratings[team_name] ELSE InitialRating

\* get_rating_history's loop from match i on: (i, rating_a_after) where the
\* team is team_a, else (i, rating_b_after) where it is team_b.
RECURSIVE HistoryEntries(_, _)
HistoryEntries(team_name, i) ==
    IF i > Len(match_history) THEN <<>>
    ELSE (IF match_history[i].team_a = team_name
          THEN <<[index |-> i, rating |-> match_history[i].rating_a_after]>>
          ELSE IF match_history[i].team_b = team_name
          THEN <<[index |-> i, rating |-> match_history[i].rating_b_after]>>
          ELSE <<>>)
         \o HistoryEntries(team_name, i + 1)

\* The loop without its elif branch: matches played as team_b are left out.
get_rating_history_as_team_a(team_name) ==
    <<[index |-> 0, rating |-> InitialRating]>> \o
    SelectSeq(HistoryEntries(team_name, 1),
              LAMBDA e : match_history[e.index].team_a = team_name)

\* get_rating_history(team_name): [(0, self.initial_rating)] and the loop.
get_rating_history(team_name) ==
    <<[index |-> 0, rating |-> InitialRating]>> \o HistoryEntries(team_name, 1)

\* The list visited from its last record to its first.
RECURSIVE MatchOrderReversed(_)
MatchOrderReversed(ms) ==
    IF ms = <<>> THEN <<>>
    ELSE Append(MatchOrderReversed(Tail(ms)), Head(ms))

\* for match in matches: the records in the order of the list.
MatchOrder(ms) == ms

\* process_matches(matches) is called: its loop has all of matches to visit.
ProcessMatches(ms) ==
    /\ pending = <<>>
    /\ pending' = MatchOrder(ms)
    /\ supplied' = supplied \o ms
    /\ UNCHANGED <<k_factor, use_map_scores, ratings, match_history>>
    /\ UNCHANGED <<simVars, valVars, numVars, svcVars>>


\* ================================================== tournament_validator
\* Teams are named 1, 2, ...; sorted(list(teams)) is ascending order.
EventName == "VCT 2024: Champions"

\* calculate_elo_from_matches: K and INITIAL_RATING.
ValidatorK == 32
ValidatorInitialRating == 1500

\* bracket_teams = teams[:8]
BracketCap == 8

\* The k-th training match: team k meets team k + 1; the result alternates
\* between 2-0 and 1-2.
TrainingMatch(k) ==
    [team_a |-> k, team_b |-> k + 1,
     score_a |-> IF k % 2 = 1 THEN 2 ELSE 1,
     score_b |-> IF k % 2 = 1 THEN 0 ELSE 2]

TrainingLists == {[k \in 1..len |-> TrainingMatch(k)] : len \in 0..MaxTraining}

\* get_tournament_teams: sorted(list(teams)) of a set of names.
RECURSIVE SortedNames(_)
SortedNames(S) ==
    IF S = {} THEN <<>>
    ELSE LET least == CHOOSE x \in S : \A y \in S : x <= y
         IN  <<least>> \o SortedNames(S \ {least})

EventTeamLists == {SortedNames(S) : S \in SUBSET (1..MaxEventTeams)}

\* The k-th match of an event played by the teams of names: the k-th team
\* meets the next one; the result alternates between 0-2 and 2-1.
EventMatch(names, k) ==
    [team_a |-> names[k], team_b |-> names[k + 1],
     score_a |-> IF k % 2 = 1 THEN 0 ELSE 2,
     score_b |-> IF k % 2 = 1 THEN 2 ELSE 1]

\* by_tournament[event]: at least one match record.
EventMatchLists ==
    {[k \in 1..(Len(names) - 1) |-> EventMatch(names, k)] :
        names \in {l \in EventTeamLists : Len(l) >= 2}}

\* Teams that lost no match of the event: names read together with scores.
get_tournament_teams_unbeaten(ms) ==
    SortedNames({ms[k].team_a : k \in {j \in 1..Len(ms) : ms[j].score_a > ms[j].score_b}}
                \cup
                {ms[k].team_b : k \in {j \in 1..Len(ms) : ms[j].score_b > ms[j].score_a}})

\* get_tournament_teams(matches): the set of the team_a and team_b names,
\* sorted.
get_tournament_teams(ms) ==
    SortedNames({ms[k].team_a : k \in 1..Len(ms)} \cup
                {ms[k].team_b : k \in 1..Len(ms)})

\* ratings[team] on defaultdict(lambda: INITIAL_RATING).
ValidatorEntry(table, team) ==
    IF team \in DOMAIN table THEN table
    ELSE [t \in DOMAIN table \cup {team} |->
            IF t = team THEN ValidatorInitialRating * ScoreScale ELSE table[t]]

\* calculate_elo_from_matches: the loop over the matches, map-based scores.
RECURSIVE EloFromMatches(_, _)
EloFromMatches(table, ms) ==
    IF ms = <<>> THEN table
    ELSE LET match == Head(ms)
             t == ValidatorEntry(ValidatorEntry(table, match.team_a), match.team_b)
             ra == t[match.team_a]
             rb == t[match.team_b]
             expected_a == expected_score(ra, rb)
             expected_b == expected_score(rb, ra)
             total_maps == match.score_a + match.score_b
             actual_a == IF total_maps > 0
                         THEN (match.score_a * ScoreScale) \div total_maps
                         ELSE ScoreScale \div 2
             actual_b == IF total_maps > 0
                         THEN (match.score_b * ScoreScale) \div total_maps
                         ELSE ScoreScale \div 2
             after_a == [t EXCEPT ![match.team_a] = ra + ValidatorK * (actual_a - expected_a)]
             after_b == [after_a EXCEPT ![match.team_b] = rb + ValidatorK * (actual_b - expected_b)]
         IN  EloFromMatches(after_b, Tail(ms))

calculate_elo_from_matches(ms) == EloFromMatches(<<>>, ms)

\* [name for name in tournament_teams if name in team_ratings]
RatedTeams(table, names) ==
    SelectSeq(names, LAMBDA name : name \in DOMAIN table)

\* teams.sort(key=elo, reverse=True); bracket_teams = teams[:8]
BracketOf(table, names) ==
    SliceTo(StableSortDesc(RatedTeams(table, names), table), BracketCap)

\* A bracket of a single team is let through.
TooFewTeamsBelowOne(bracket) == Len(bracket) < 1

\* if len(bracket_teams) < 2: return {}
TooFewTeams(bracket) == Len(bracket) < 2

\* A round whose unpaired last team is appended twice.
PredictNextRoundsByeTwice(alive) ==
    LET n == Len(alive)
        slots == (n + 1) \div 2 + (n % 2)
    IN  {[i \in 1..slots |->
            IF 2 * i > n THEN alive[n]
            ELSE IF pick[i] THEN alive[2 * i - 1] ELSE alive[2 * i]] :
         pick \in [1..slots -> BOOLEAN]}

\* The lists one pass of the while loop can build: the winner of each pair
\* (2i-1, 2i), and the unpaired last team of an odd list without a match.
PredictNextRounds(alive) ==
    LET n == Len(alive)
        slots == (n + 1) \div 2
    IN  {[i \in 1..slots |->
            IF 2 * i > n THEN alive[2 * i - 1]
            ELSE IF pick[i] THEN alive[2 * i - 1] ELSE alive[2 * i]] :
         pick \in [1..slots -> BOOLEAN]}

\* win_counts[name] += 1 on defaultdict(int); a new key goes last.
BumpWin(wc, name) ==
    IF \E k \in 1..Len(wc) : wc[k].name = name
    THEN [k \in 1..Len(wc) |->
            IF wc[k].name = name THEN [wc[k] EXCEPT !.count = @ + 1] ELSE wc[k]]
    ELSE Append(wc, [name |-> name, count |-> 1])

\* {team: (count / n_simulations) * 100 for team, count in win_counts.items()},
\* in units of 1/ScoreScale percent.
Probabilities(wc, n) ==
    [k \in 1..Len(wc) |->
        [name |-> wc[k].name, prob |-> (wc[k].count * 100 * ScoreScale) \div n]]

\* sorted(predictions.items(), key=lambda x: x[1], reverse=True)
SortedPredictions(preds) ==
    LET order == StableSortDesc([k \in 1..Len(preds) |-> k],
                                [k \in 1..Len(preds) |-> preds[k].prob])
    IN  [q \in 1..Len(preds) |-> preds[order[q]]]

\* predictions.get(actual_winner, 0.0)
ProbOf(preds, name) ==
    IF \E k \in 1..Len(preds) : preds[k].name = name
    THEN preds[CHOOSE k \in 1..Len(preds) : preds[k].name = name].prob
    ELSE 0

\* The rank counted from 0 (i in place of i + 1).
RankOfZeroBased(sorted_predictions, name) ==
    IF \E i \in 1..Len(sorted_predictions) : sorted_predictions[i].name = name
    THEN (CHOOSE i \in 1..Len(sorted_predictions) :
              sorted_predictions[i].name = name) - 1
    ELSE 0

\* next((i + 1 for i, (name, _) in enumerate(sorted_predictions)
\*       if name == actual_winner), None); 0 stands for None.
RankOf(sorted_predictions, name) ==
    IF \E i \in 1..Len(sorted_predictions) : sorted_predictions[i].name = name
    THEN CHOOSE i \in 1..Len(sorted_predictions) : sorted_predictions[i].name = name
    ELSE 0

\* The record validate_tournament returns when predictions is empty.
InsufficientData ==
    [tournament |-> EventName, error |-> "Insufficient data"]

\* The record validate_tournament returns otherwise.
ValidationResult(training, names, preds, winner) ==
    LET sorted_predictions == SortedPredictions(preds)
        actual_winner_prob == ProbOf(preds, winner)
        actual_winner_rank == RankOf(sorted_predictions, winner)
        predicted_winner == sorted_predictions[1].name
        predicted_prob == sorted_predictions[1].prob
        correct == predicted_winner = winner
        top_3 == IF actual_winner_rank # 0 THEN actual_winner_rank <= 3 ELSE FALSE
        top_5 == IF actual_winner_rank # 0 THEN actual_winner_rank <= 5 ELSE FALSE
    IN  [tournament |-> EventName,
         training_matches |-> Len(training),
         tournament_teams |-> Len(names),
         predicted_winner |-> predicted_winner,
         predicted_prob |-> predicted_prob,
         actual_winner |-> winner,
         actual_winner_prob |-> actual_winner_prob,
         actual_winner_rank |-> actual_winner_rank,
         correct_prediction |-> correct,
         top_3 |-> top_3,
         top_5 |-> top_5,
         top_5_predictions |-> SliceTo(sorted_predictions, 5)]

\* main: valid_results = [r for r in results if "error" not in r]
ValidResults(rs) == SelectSeq(rs, LAMBDA r : "error" \notin DOMAIN r)

\* main: the "metrics" object of validation_results.json; the accuracies are
\* in units of 1/ScoreScale.
Metrics(valid_results) ==
    LET total == Len(valid_results)
        correct == Len(SelectSeq(valid_results, LAMBDA r : r.correct_prediction))
        top_3 == Len(SelectSeq(valid_results, LAMBDA r : r.top_3))
        top_5 == Len(SelectSeq(valid_results, LAMBDA r : r.top_5))
    IN  [total_tournaments |-> total,
         exact_accuracy |-> (correct * ScoreScale) \div total,
         top_3_accuracy |-> (top_3 * ScoreScale) \div total,
         top_5_accuracy |-> (top_5 * ScoreScale) \div total]

\* validate_tournament: team_ratings = calculate_elo_from_matches(training_matches)
ValidateTeamRatings(training, event_matches) ==
    calculate_elo_from_matches(training)

\* validate_tournament: the bracket predict_tournament_winner builds from
\* team_ratings and get_tournament_teams(tournament_matches).
ValidateBracket(training, event_matches) ==
    BracketOf(ValidateTeamRatings(training, event_matches),
              get_tournament_teams(event_matches))

\* main finds no Champions event: nothing is validated.
MainWithoutEvent ==
    /\ vpc = "main"
    /\ ~has_event
    /\ main_results' = <<>>
    /\ vpc' = "report"
    /\ UNCHANGED <<has_event, training_matches, tournament_matches,
                   tournament_teams, actual_winner,
                   n_simulations, team_ratings, bracket_teams, pred_remaining,
                   win_counts, sim_i, predictions, output>>
    /\ UNCHANGED <<simVars, eloVars, numVars, svcVars>>

\* main calls validate_tournament, which rates the teams and enters
\* predict_tournament_winner; with fewer than 2 bracket teams predict returns
\* {} and validate_tournament returns the failure record at once.
ValidateTournament ==
    /\ vpc = "main"
    /\ has_event
    /\ tournament_teams' = get_tournament_teams(tournament_matches)
    /\ team_ratings' = ValidateTeamRatings(training_matches, tournament_matches)
    /\ bracket_teams' = ValidateBracket(training_matches, tournament_matches)
    /\ sim_i' = 0
    /\ win_counts' = <<>>
    /\ predictions' = <<>>
    /\ IF TooFewTeams(ValidateBracket(training_matches, tournament_matches))
       THEN /\ main_results' = <<InsufficientData>>
            /\ vpc' = "report"
       ELSE /\ main_results' = <<>>
            /\ vpc' = "simulate"
    /\ UNCHANGED <<has_event, training_matches, tournament_matches,
                   actual_winner, n_simulations, pred_remaining, output>>
    /\ UNCHANGED <<simVars, eloVars, numVars, svcVars>>

\* for _ in range(n_simulations): remaining = bracket_teams.copy()
PredictBeginTrial ==
    /\ vpc = "simulate"
    /\ sim_i < n_simulations
    /\ pred_remaining' = bracket_teams
    /\ vpc' = "round"
    /\ UNCHANGED <<has_event, training_matches, tournament_matches,
                   tournament_teams, actual_winner,
                   n_simulations, team_ratings, bracket_teams, win_counts,
                   sim_i, predictions, main_results, output>>
    /\ UNCHANGED <<simVars, eloVars, numVars, svcVars>>

\* One pass of "while len(remaining) > 1".
PredictRound ==
    /\ vpc = "round"
    /\ Len(pred_remaining) > 1
    /\ \E next_round \in PredictNextRounds(pred_remaining) :
           pred_remaining' = next_round
    /\ UNCHANGED <<vpc, has_event, training_matches, tournament_matches,
                   tournament_teams,
                   actual_winner, n_simulations, team_ratings, bracket_teams,
                   win_counts, sim_i, predictions, main_results, output>>
    /\ UNCHANGED <<simVars, eloVars, numVars, svcVars>>

\* if remaining: win_counts[remaining[0]["name"]] += 1
PredictRecordWinner ==
    /\ vpc = "round"
    /\ Len(pred_remaining) <= 1
    /\ win_counts' = IF pred_remaining # <<>>
                     THEN BumpWin(win_counts, pred_remaining[1])
                     ELSE win_counts
    /\ sim_i' = sim_i + 1
    /\ vpc' = "simulate"
    /\ UNCHANGED <<has_event, training_matches, tournament_matches,
                   tournament_teams, actual_winner,
                   n_simulations, team_ratings, bracket_teams, pred_remaining,
                   predictions, main_results, output>>
    /\ UNCHANGED <<simVars, eloVars, numVars, svcVars>>

\* predict_tournament_winner returns the probabilities; validate_tournament
\* ranks the actual winner (an argument it first reads here) and returns.
ValidateFinish ==
    /\ vpc = "simulate"
    /\ sim_i = n_simulations
    /\ predictions' = Probabilities(win_counts, n_simulations)
    /\ \E winner \in 1..MaxEventTeams :
          /\ actual_winner' = winner
          /\ main_results' =
                IF Probabilities(win_counts, n_simulations) = <<>>
                THEN <<InsufficientData>>
                ELSE <<ValidationResult(training_matches, tournament_teams,
                                        Probabilities(win_counts, n_simulations),
                                        winner)>>
    /\ vpc' = "report"
    /\ UNCHANGED <<has_event, training_matches, tournament_matches,
                   tournament_teams,
                   n_simulations, team_ratings, bracket_teams, pred_remaining,
                   win_counts, sim_i, output>>
    /\ UNCHANGED <<simVars, eloVars, numVars, svcVars>>

\* main: the overall metrics; validation_results.json is written only when
\* valid_results is not empty.
MainReport ==
    /\ vpc = "report"
    /\ output' = IF ValidResults(main_results) # <<>>
                 THEN [validation_results |-> ValidResults(main_results),
                       metrics |-> Metrics(ValidResults(main_results))]
                 ELSE output
    /\ vpc' = "done"
    /\ UNCHANGED <<has_event, training_matches, tournament_matches,
                   tournament_teams, actual_winner,
                   n_simulations, team_ratings, bracket_teams, pred_remaining,
                   win_counts, sim_i, predictions, main_results>>
    /\ UNCHANGED <<simVars, eloVars, numVars, svcVars>>

\* ---------------------------------------------------------- specification
\* Rating of the i-th roster entry of the simulation roster: three rating
\* levels, neither sorted nor free of ties.
SimRating(i) == 1500 + 100 * (i % 3)

SimRoster ==
    [i \in 1..MaxTeams |-> [name |-> i, elo_rating |-> SimRating(i), seed |-> 0]]

\* The state after BracketSimulator.__init__ on a roster.
SimInit(roster) ==
    /\ all_teams = roster
    /\ teams = <<>>
    /\ simulation_results = EmptyResults
    /\ pc = "idle"
    /\ caller = "direct"
    /\ run_n = 0
    /\ run_i = 0
    /\ remaining_teams = <<>>
    /\ last_call = [op |-> "__init__", arg |-> 0]
    /\ raised = NoError
    /\ champion = 0
    /\ stats = <<>>
    /\ before = EmptyResults
    /\ rounds = 0
    /\ matches = 0
    /\ completed = 0
    /\ started = 0
    /\ selects = 0
    /\ played = 0

\* The state after ELOCalculator.__init__(k_factor, use_map_scores=mode).
EloInit(k, mode) ==
    /\ k_factor = k
    /\ use_map_scores = mode
    /\ ratings = <<>>
    /\ match_history = <<>>
    /\ pending = <<>>
    /\ supplied = <<>>

\* The validator is not running.
ValOff ==
    /\ vpc = "off"
    /\ has_event = FALSE
    /\ training_matches = <<>>
    /\ tournament_matches = <<>>
    /\ tournament_teams = <<>>
    /\ actual_winner = 0
    /\ n_simulations = 0
    /\ team_ratings = <<>>
    /\ bracket_teams = <<>>
    /\ pred_remaining = <<>>
    /\ win_counts = <<>>
    /\ sim_i = 0
    /\ predictions = <<>>
    /\ main_results = <<>>
    /\ output = <<>>

\* No probability function has been called.
NumOff ==
    /\ npc = {}
    /\ arg_map_win_prob = FloatZero
    /\ arg_best_of = 0
    /\ ret_series_prob = FloatZero
    /\ ret_series_prob_a = FloatZero
    /\ arg_ratings = <<>>
    /\ ret_win_prob = FloatZero
    /\ num_raised = ""

\* No SimulationService call is running.
SvcOff ==
    /\ svc_args = [teams_count |-> 0, num_simulations |-> 0, serializable |-> TRUE]
    /\ svc_pc = "off"
    /\ svc_status = "none"
    /\ svc_results = NoResults
    /\ svc_error = ""
    /\ temp_files = 0
    /\ svc_exception = ""

\* elo_sigma as passed to BracketSimulator(...): None (0 here) or positive.
SigmaValues == {0, 50}

Init ==
    /\ SimInit(SimRoster)
    /\ elo_sigma \in SigmaValues
    /\ EloInit(DefaultKFactor, TRUE)
    /\ ValOff
    /\ NumOff
    /\ SvcOff

\* The explicit counts a caller passes: -1 (a negative slice bound) up to one
\* more than the roster holds.
CountsFor(available) == -1..(available + 1)

Next ==
    \/ /\ selects < MaxSelects
       /\ \E count \in CountsFor(Len(all_teams)) : SelectTeams(count)
    \/ /\ selects < MaxSelects
       /\ SelectTeamsAuto
    \/ SimulateTournament
    \/ \E n \in 0..MaxTrials : RunSimulation(n)
    \/ LoopNextTrial
    \/ TrackAdvancement
    \/ PlayRound
    \/ PlayRoundIndexError
    \/ Crown
    \/ CrownIndexError
    \/ CalculateStatistics
    \/ CalculateStatisticsZeroDivision

Spec == Init /\ [][Next]_vars

\* ------------------------------------------------ selection specification
\* Every roster of up to MaxRoster uniquely named teams over RatingValues.
Rosters ==
    UNION {[1..len -> RatingValues] : len \in 0..MaxRoster}

RosterOf(roster_ratings) ==
    [i \in 1..Len(roster_ratings) |->
        [name |-> i, elo_rating |-> roster_ratings[i], seed |-> 0]]

InitSelect ==
    /\ \E roster_ratings \in Rosters : SimInit(RosterOf(roster_ratings))
    /\ elo_sigma = 0
    /\ EloInit(DefaultKFactor, TRUE)
    /\ ValOff
    /\ NumOff
    /\ SvcOff

NextSelect ==
    \/ /\ selects < MaxReselects
       /\ \E count \in CountsFor(Len(all_teams)) : SelectTeams(count)
    \/ /\ selects < MaxReselects
       /\ SelectTeamsAuto

SpecSelect == InitSelect /\ [][NextSelect]_vars

\* ---------------------------------------------- rating specification
EloTeams == {"A", "B"}
KFactors == {0 - DefaultKFactor, 0, DefaultKFactor}
MapCounts == 0..MaxMaps

InitElo ==
    /\ SimInit(SimRoster)
    /\ elo_sigma = 0
    /\ ValOff
    /\ NumOff
    /\ SvcOff
    /\ \E k \in KFactors, mode \in BOOLEAN : EloInit(k, mode)

NextElo ==
    \E team_a \in EloTeams :
      \E team_b \in EloTeams \ {team_a} :
        \E team_a_maps \in MapCounts, team_b_maps \in MapCounts :
           /\ Len(match_history) < MaxHistory
           /\ UpdateRatings(team_a, team_b, team_a_maps, team_b_maps)

SpecElo == InitElo /\ [][NextElo]_vars

\* ------------------------------------------------ validator specification
\* main is entered with the match data loaded: the event is present or not,
\* with its teams and the training matches of the earlier events.
InitValidate ==
    /\ SimInit(SimRoster)
    /\ elo_sigma = 0
    /\ EloInit(DefaultKFactor, TRUE)
    /\ NumOff
    /\ SvcOff
    /\ vpc = "main"
    /\ has_event \in BOOLEAN
    /\ training_matches \in TrainingLists
    /\ IF has_event
       THEN /\ tournament_matches \in EventMatchLists
            /\ n_simulations \in 1..MaxSims
       ELSE /\ tournament_matches = <<>>
            /\ n_simulations = 1
    /\ tournament_teams = <<>>
    /\ actual_winner = 0
    /\ team_ratings = <<>>
    /\ bracket_teams = <<>>
    /\ pred_remaining = <<>>
    /\ win_counts = <<>>
    /\ sim_i = 0
    /\ predictions = <<>>
    /\ main_results = <<>>
    /\ output = <<>>

NextValidate ==
    \/ MainWithoutEvent
    \/ ValidateTournament
    \/ PredictBeginTrial
    \/ PredictRound
    \/ PredictRecordWinner
    \/ ValidateFinish
    \/ MainReport

SpecValidate == InitValidate /\ [][NextValidate]_vars

\* ------------------------------------------- process_matches specification
\* The map counts a match record may carry: a non-physical negative one, none,
\* and a series win.
RecordCounts == {-1, 0, 2}

MatchRecords ==
    {[team_a |-> a, team_b |-> b, score_a |-> sa, score_b |-> sb] :
        a \in EloTeams, b \in EloTeams, sa \in RecordCounts, sb \in RecordCounts}

\* Every list of up to MaxRecords records between distinct teams.
MatchLists ==
    UNION {[1..len -> {r \in MatchRecords : r.team_a # r.team_b}] :
              len \in 0..MaxRecords}

\* ELOCalculator(use_map_scores=mode), then process_matches(matches) is
\* entered.
InitProcess ==
    /\ SimInit(SimRoster)
    /\ elo_sigma = 0
    /\ ValOff
    /\ NumOff
    /\ SvcOff
    /\ \E mode \in BOOLEAN, matches_arg \in MatchLists :
          /\ k_factor = DefaultKFactor
          /\ use_map_scores = mode
          /\ ratings = <<>>
          /\ match_history = <<>>
          /\ pending = matches_arg
          /\ supplied = matches_arg

NextProcess == ProcessMatchesStep

SpecProcess == InitProcess /\ [][NextProcess]_vars

\* ------------------------------------ repeated process_matches specification
\* Records handed to one ELOCalculator object over all its process_matches calls.
MaxSupplied == 3

CallTeams == {"A", "B", "C"}

\* A series won 2-0 by team_a or 2-1 by team_b.
CallRecords ==
    {[team_a |-> a, team_b |-> b, score_a |-> sc[1], score_b |-> sc[2]] :
        a \in CallTeams, b \in CallTeams, sc \in {<<2, 0>>, <<1, 2>>}}

\* The lists a call may pass: up to room records, a record naming one team
\* on both sides included.
CallLists(room) == UNION {[1..len -> CallRecords] : len \in 0..room}

\* ELOCalculator() with its defaults.
InitCalls ==
    /\ SimInit(SimRoster)
    /\ elo_sigma = 0
    /\ ValOff
    /\ NumOff
    /\ SvcOff
    /\ EloInit(DefaultKFactor, TRUE)

NextCalls ==
    \/ \E ms \in CallLists(MaxSupplied - Len(supplied)) : ProcessMatches(ms)
    \/ ProcessMatchesStep

SpecCalls == InitCalls /\ [][NextCalls]_vars

\* -------------------------------------- series probability specification
\* Binades below 1 the map win probabilities are drawn from.
MaxBinades == 4
\* Longest series format.
MaxBestOf == 5

\* Every float p with 2^-MaxBinades <= p < 1.
ProbValues ==
    {[m |-> m, e |-> e] :
        m \in MantissaMin..(MantissaMax - 1),
        e \in (1 - MantissaBits - MaxBinades)..(0 - MantissaBits)}

\* best_of: 1 (BO1), 3 (BO3), 5 (BO5)
BestOfValues == {n \in 1..MaxBestOf : n % 2 = 1}

InitSeries ==
    /\ SimInit(SimRoster)
    /\ elo_sigma = 0
    /\ EloInit(DefaultKFactor, TRUE)
    /\ ValOff
    /\ SvcOff
    /\ npc = {}
    /\ arg_map_win_prob \in ProbValues
    /\ arg_best_of \in BestOfValues
    /\ ret_series_prob = FloatZero
    /\ ret_series_prob_a = FloatZero
    /\ arg_ratings = <<>>
    /\ ret_win_prob = FloatZero
    /\ num_raised = ""

NextSeries ==
    \/ SeriesWinProbability
    \/ PredictSeriesProb

SpecSeries == InitSeries /\ [][NextSeries]_vars


\* ---------------------------------------- win probability specification
\* Ratings near each other: 0, 400, ..., MaxRatingSteps * 400.
MaxRatingSteps == 9
\* Ratings far apart: the largest gap is (FarSteps + MaxFarSteps) * 400 points.
FarSteps == 307
MaxFarSteps == 3

InitWinProb ==
    /\ SimInit(SimRoster)
    /\ elo_sigma = 0
    /\ EloInit(DefaultKFactor, TRUE)
    /\ ValOff
    /\ SvcOff
    /\ npc = {}
    /\ arg_map_win_prob = FloatZero
    /\ arg_best_of \in BestOfValues
    /\ ret_series_prob = FloatZero
    /\ ret_series_prob_a = FloatZero
    /\ arg_ratings \in
          LET near == {RatingStep * k : k \in 0..MaxRatingSteps}
              far == {RatingStep * (FarSteps + k) : k \in 1..MaxFarSteps}
          IN  (near \cup far) \X (near \cup far)
    /\ ret_win_prob = FloatZero
    /\ num_raised = ""

NextWinProb ==
    \/ CalculateWinProbability
    \/ ExpectedScore
    \/ SimulateMatchSeries

SpecWinProb == InitWinProb /\ [][NextWinProb]_vars


\* ------------------------------------------------ service specification
\* Teams a caller passes to SimulationService.run_simulation.
MaxServiceTeams == 4
\* num_simulations of the call.
MaxServiceTrials == 2

InitService ==
    /\ SimInit(<<>>)
    /\ elo_sigma \in SigmaValues
    /\ EloInit(DefaultKFactor, TRUE)
    /\ ValOff
    /\ NumOff
    /\ svc_args \in [teams_count : 0..MaxServiceTeams,
                     num_simulations : 0..MaxServiceTrials,
                     serializable : BOOLEAN]
    /\ svc_pc = "off"
    /\ svc_status = "none"
    /\ svc_results = NoResults
    /\ svc_error = ""
    /\ temp_files = 0
    /\ svc_exception = ""

NextService ==
    \/ ServiceCreateRecord
    \/ ServiceMarkRunning
    \/ ServiceWriteTeamsFile
    \/ /\ svc_pc = "simulating"
       /\ \/ LoopNextTrial
          \/ TrackAdvancement
          \/ PlayRound
          \/ PlayRoundIndexError
          \/ Crown
          \/ CrownIndexError
          \/ CalculateStatistics
          \/ CalculateStatisticsZeroDivision
    \/ ServiceStoreResults
    \/ ServiceSimulationFailed

SpecService == InitService /\ [][NextService]_vars

\* ======================================================================
\* Properties
\* ======================================================================
SimulationCall ==
    last_call.op \in {"simulate_tournament_with_tracking", "run_simulation"}

ValidBracket == Len(teams) >= 2 /\ IsPowerOfTwo(Len(teams))

Names(results) == DOMAIN results

SelectedNames == {NameOf(teams[p]) : p \in 1..Len(teams)}

\* Every counter key either dictionary holds for a name.
KeysOf(name) ==
    (IF name \in DOMAIN simulation_results THEN DOMAIN simulation_results[name] ELSE {})
    \cup (IF name \in DOMAIN before THEN DOMAIN before[name] ELSE {})

\* What the current or last trial added to a counter.
Credited(name, key) ==
    Count(simulation_results, name, key) - Count(before, name, key)

SumChampionships ==
    SumOver(Names(simulation_results),
            [name \in Names(simulation_results) |->
                Count(simulation_results, name, ChampionshipsKey)])

\* C1: a simulation call on a bracket whose size is not a power of two, or is
\* below 2, starts no round and ends with an InvalidBracketSize error that
\* names the requested and the available team count.
C1_InvalidBracketSizeRaised ==
    (SimulationCall /\ ~ValidBracket) =>
        /\ pc # "play"
        /\ matches = 0
        /\ pc = "idle" =>
              /\ raised.type = "InvalidBracketSize"
              /\ raised.requested = Len(teams)
              /\ raised.available = Len(all_teams)

\* C2: a trial that returns has credited exactly one championship, to the
\* champion it returns, a team of the bracket; the championship counters of
\* all teams sum to the number of trials returned since the last reset.
C2_OneChampionPerTrial ==
    /\ SumChampionships = completed
    /\ champion # 0 =>
          /\ champion \in Range(teams)
          /\ Credited(NameOf(champion), ChampionshipsKey) = 1
          /\ \A name \in Names(simulation_results) \ {NameOf(champion)} :
                Credited(name, ChampionshipsKey) = 0

C2_Witness ==
    /\ champion # 0
    /\ Len(teams) = 4
    /\ completed = 2

\* C3: in a trial on N = 2^k teams the alive list has a power-of-two length
\* that is N halved once per completed round, and the loop is left with one
\* team after exactly k rounds.
C3_AliveListHalves ==
    (pc \in {"while", "play"} \/ champion # 0) /\ IsPowerOfTwo(Len(teams)) =>
        /\ Len(remaining_teams) >= 1
        /\ IsPowerOfTwo(Len(remaining_teams))
        /\ Len(remaining_teams) * Pow2(rounds) = Len(teams)
        /\ champion # 0 => Len(remaining_teams) = 1

C3_Witness ==
    /\ champion # 0
    /\ Len(teams) = 8
    /\ rounds = 3
    /\ Len(remaining_teams) = 1

\* The chain championship <= Finals <= Semifinals <= Quarterfinals over the
\* rounds an N-team bracket has.
ChainHolds(n, champ, finals, semis, quarters) ==
    /\ n >= 2 => champ <= finals
    /\ n >= 4 => finals <= semis
    /\ n >= 8 => semis <= quarters

\* C4: throughout and after run_simulation on a power-of-two bracket, every
\* team's championship counter is at most its reached-Finals counter, that at
\* most its reached-Semifinals counter, that at most its reached-Quarterfinals
\* counter, over the rounds the bracket has; the returned percentages are
\* ordered the same way.
C4_RoundReachMonotone ==
    (last_call.op = "run_simulation" /\ IsPowerOfTwo(Len(teams))) =>
        /\ \A name \in SelectedNames :
              ChainHolds(Len(teams),
                         Count(simulation_results, name, ChampionshipsKey),
                         Count(simulation_results, name, "reached_Finals"),
                         Count(simulation_results, name, "reached_Semifinals"),
                         Count(simulation_results, name, "reached_Quarterfinals"))
        /\ \A q \in 1..Len(stats) :
              ChainHolds(Len(teams), stats[q].championship_prob,
                         stats[q].finals_prob, stats[q].semifinals_prob,
                         stats[q].quarterfinals_prob)

C4_Witness ==
    /\ last_call.op = "run_simulation"
    /\ Len(teams) = 8
    /\ Len(stats) = 8
    /\ \E q \in 1..8 : stats[q].championship_prob = 10000
    /\ \E q \in 1..8 : stats[q].finals_prob < stats[q].semifinals_prob
    /\ \E q \in 1..8 : stats[q].semifinals_prob < stats[q].quarterfinals_prob

\* C5: every processed match leaves the sum of the two teams' ratings
\* unchanged, in either scoring mode and for every k_factor.
C5_RatingsZeroSum ==
    \A m \in 1..Len(match_history) :
        match_history[m].rating_a_after + match_history[m].rating_b_after
            = match_history[m].rating_a_before + match_history[m].rating_b_before

\* C6: the returned statistics are in descending championship_prob order, and
\* of two teams with equal championship_prob the lower seed comes first.
C6_StatsSortedStable ==
    \A i \in 1..Len(stats), j \in 1..Len(stats) :
        i < j =>
            \/ stats[i].championship_prob > stats[j].championship_prob
            \/ /\ stats[i].championship_prob = stats[j].championship_prob
               /\ stats[i].seed < stats[j].seed

C6_Witness ==
    /\ Len(stats) = 4
    /\ stats[1].seed = 2 /\ stats[1].championship_prob = 5000
    /\ stats[2].seed = 3 /\ stats[2].championship_prob = 5000
    /\ stats[3].seed = 1 /\ stats[3].championship_prob = 0
    /\ stats[4].seed = 4 /\ stats[4].championship_prob = 0

C8_CreditedBeforeElimination ==
    /\ pc = "play" =>
          \A i \in 1..Len(all_teams) :
              Credited(NameOf(i), ReachedKey(Len(remaining_teams)))
                  = IF i \in Range(remaining_teams) THEN 1 ELSE 0
    /\ (Len(teams) = 4 /\ last_call.op = "run_simulation") =>
          \A q \in 1..Len(stats) : stats[q].semifinals_prob = 10000

C8_Witness ==
    /\ Len(teams) = 4
    /\ last_call = [op |-> "run_simulation", arg |-> 2]
    /\ Len(stats) = 4
    /\ \A q \in 1..4 : stats[q].semifinals_prob = 10000

C10_TwoTeamBracket ==
    (champion # 0 /\ Len(teams) = 2) =>
        /\ matches = 1
        /\ rounds = 1
        /\ \A name \in SelectedNames :
              /\ Credited(name, "reached_Finals") = 1
              /\ \A key \in KeysOf(name) \ {"reached_Finals", ChampionshipsKey} :
                    Credited(name, key) = 0
              /\ Credited(name, ChampionshipsKey)
                    = IF name = NameOf(champion) THEN 1 ELSE 0

C10_Witness ==
    /\ champion # 0
    /\ Len(teams) = 2
    /\ completed = 2
    /\ champion = teams[2]

\* C11: process_matches rejects a record with a negative map count: such a
\* record never enters the match history (and so never moves a rating).
C11_NegativeRecordRejected ==
    \A m \in 1..Len(match_history) :
        /\ match_history[m].score[1] >= 0
        /\ match_history[m].score[2] >= 0

\* C14: select_teams writes no seed into a roster record: every entry of
\* all_teams stays as the caller supplied it (seed 0 stands for no seed field).
C14_RosterRecordsUntouched ==
    \A i \in 1..Len(all_teams) : all_teams[i].seed = 0

\* C15: no call changes the elo_rating (or the name) of a team record,
\* whether or not performance noise is drawn: every match reads the ratings
\* the roster was loaded with.
C15_RatingsPreserved ==
    \A i \in 1..Len(all_teams) :
        /\ all_teams[i].elo_rating = SimRating(i)
        /\ all_teams[i].name = i

C15_Witness ==
    /\ elo_sigma > 0
    /\ last_call = [op |-> "run_simulation", arg |-> 2]
    /\ pc = "idle"
    /\ completed = 2
    /\ Len(stats) = 4

\* C16: no step of a trial (or of run_simulation) changes self.teams or a
\* seed, and every trial starts with the alive list equal to self.teams.
C16_BracketUnchangedByTrials ==
    [][(selects' = selects) =>
          /\ teams' = teams
          /\ \A i \in 1..Len(all_teams) : all_teams'[i].seed = all_teams[i].seed
          /\ (started' = started + 1) => remaining_teams' = teams]_vars

C16_Witness ==
    /\ last_call = [op |-> "run_simulation", arg |-> 2]
    /\ pc = "while"
    /\ completed = 1
    /\ rounds = 0
    /\ Len(teams) = 4
    /\ remaining_teams = teams

\* The largest power of two that is at most n, 0 if there is none.
LargestPowerOfTwoUpTo(n) ==
    IF n < 1 THEN 0
    ELSE CHOOSE p \in 1..n : IsPowerOfTwo(p) /\ p <= n /\ 2 * p > n

\* C17 as stated: for every roster size select_teams(count=None) returns
\* normally with exactly P teams selected, P the largest power of two that
\* is at most the roster size.
C17_AutoSelectsLargestPowerOfTwo ==
    last_call.op = "select_teams_auto" =>
        /\ raised = NoError
        /\ Len(teams) >= 1
        /\ Len(teams) = LargestPowerOfTwoUpTo(Len(all_teams))

\* C17 amended: on a roster of at least one team select_teams(count=None)
\* selects exactly P teams, P the largest power of two that is at most the
\* roster size; on an empty roster no such P exists, the loop leaves count at
\* 1 and the call raises ValueError (requested 1, available 0).
C17_AutoSelectsOnNonEmptyRoster ==
    last_call.op = "select_teams_auto" =>
        IF Len(all_teams) >= 1
        THEN /\ raised = NoError
             /\ Len(teams) = LargestPowerOfTwoUpTo(Len(all_teams))
             /\ last_call.arg = Len(teams)
        ELSE /\ raised = ValueError(1, 0)
             /\ teams = <<>>

C17_Witness ==
    /\ last_call = [op |-> "select_teams_auto", arg |-> 2]
    /\ Len(all_teams) = 3
    /\ Len(teams) = 2
    /\ raised = NoError

\* C18: a select_teams call that asks for more teams than the roster holds
\* raises ValueError carrying the requested and the available number, and
\* leaves self.teams and every roster record (seeds included) as they were.
C18_TooManyRequestedLeavesBracket ==
    [][(selects' = selects + 1 /\ last_call'.arg > Len(all_teams)) =>
          /\ raised' = [type |-> "ValueError",
                        requested |-> last_call'.arg,
                        available |-> Len(all_teams)]
          /\ teams' = teams
          /\ all_teams' = all_teams]_vars

C18_Witness ==
    /\ last_call = [op |-> "select_teams", arg |-> 5]
    /\ raised = ValueError(5, 4)
    /\ selects = 2
    /\ Len(teams) = 3
    /\ \A p \in 1..3 : all_teams[teams[p]].seed = p

\* Event teams that played a training match, counted from the arguments.
RatedEventTeams ==
    {name \in Range(tournament_teams) :
        \E m \in 1..Len(training_matches) :
            name \in {training_matches[m].team_a, training_matches[m].team_b}}

ValidatorReturned == has_event /\ vpc \in {"report", "done"}

\* C12: with fewer than 2 rated event teams predict_tournament_winner runs
\* no trial and returns an empty result, and validate_tournament returns the
\* failure record (the tournament name and an error field).
C12_InsufficientRatingData ==
    (has_event /\ vpc # "main" /\ Cardinality(RatedEventTeams) < 2) =>
        /\ vpc \in {"report", "done"}
        /\ sim_i = 0
        /\ win_counts = <<>>
        /\ predictions = <<>>
        /\ Len(main_results) = 1
        /\ DOMAIN main_results[1] = {"tournament", "error"}
        /\ main_results[1].tournament = EventName

C12_Witness ==
    /\ vpc = "report"
    /\ has_event
    /\ Len(tournament_teams) = 3
    /\ Cardinality(RatedEventTeams) = 1
    /\ Len(training_matches) = 2
    /\ main_results = <<InsufficientData>>

\* What main reports: the events it counts as validated and as skipped
\* (nothing is reported when no file is written or no such count exists).
ReportedValidated ==
    IF output # <<>> THEN output.metrics.total_tournaments ELSE 0

ReportedSkipped ==
    IF output # <<>> /\ "skipped" \in DOMAIN output.metrics
    THEN output.metrics["skipped"] ELSE 0

\* C13: when main is done, the events it reports as validated plus the
\* events it reports as skipped are the events it attempted.
C13_FailuresCountedAsSkipped ==
    vpc = "done" => ReportedValidated + ReportedSkipped = Len(main_results)

\* Sum of field f over the entries of a list of records.
RECURSIVE SumCounts(_)
SumCounts(wc) ==
    IF wc = <<>> THEN 0 ELSE Head(wc).count + SumCounts(Tail(wc))

RECURSIVE SumProbs(_)
SumProbs(preds) ==
    IF preds = <<>> THEN 0 ELSE Head(preds).prob + SumProbs(Tail(preds))

\* The state part of C19.
PredictOneWinnerPerTrial ==
    /\ vpc = "round" =>
          /\ Len(pred_remaining) >= 1
          /\ Range(pred_remaining) \subseteq Range(bracket_teams)
    /\ SumCounts(win_counts) = sim_i
    /\ \A k \in 1..Len(win_counts) : win_counts[k].name \in Range(bracket_teams)
    /\ (ValidatorReturned /\ Len(bracket_teams) >= 2) =>
          /\ sim_i = n_simulations
          /\ SumProbs(predictions) = 100 * ScoreScale

\* Every pass of the while loop leaves a strictly shorter alive list that is
\* not empty (the variant that ends the loop), a trial that ends names its
\* single remaining team the winner, and the trial counter only grows.
PredictLoopsProgress ==
    /\ (vpc = "round" /\ vpc' = "round") =>
          /\ Len(pred_remaining') < Len(pred_remaining)
          /\ Len(pred_remaining') >= 1
    /\ (vpc = "round" /\ vpc' = "simulate") =>
          /\ Len(pred_remaining) = 1
          /\ sim_i' = sim_i + 1
          /\ SumCounts(win_counts') = SumCounts(win_counts) + 1
    /\ (vpc = "simulate" /\ vpc' = "round") =>
          /\ sim_i < n_simulations
          /\ Len(pred_remaining') \in 2..BracketCap

PlaceOf(name) ==
    IF \E k \in 1..Len(predictions) : predictions[k].name = name
    THEN LET k == CHOOSE j \in 1..Len(predictions) : predictions[j].name = name
         IN  1 + Cardinality({j \in 1..Len(predictions) :
                    \/ predictions[j].prob > predictions[k].prob
                    \/ /\ predictions[j].prob = predictions[k].prob
                       /\ j < k})
    ELSE 0

\* C20: a successful validate_tournament reports actual_winner_rank as the
\* 1-based place of the actual winner in the predictions by descending
\* probability, or None (0) with probability 0 when the winner has no
\* prediction; correct_prediction holds exactly when the rank is 1, and
\* correct_prediction implies top_3, which implies top_5.
C20_WinnerRankAndFlags ==
    (ValidatorReturned /\ predictions # <<>>) =>
        LET r == main_results[1] IN
        /\ r.actual_winner = actual_winner
        /\ r.actual_winner_rank = PlaceOf(actual_winner)
        /\ r.actual_winner_rank = 0 => r.actual_winner_prob = 0
        /\ r.actual_winner_rank # 0 =>
              /\ r.actual_winner_prob > 0
              /\ r.top_5_predictions[r.actual_winner_rank].name = actual_winner
              /\ r.top_5_predictions[r.actual_winner_rank].prob = r.actual_winner_prob
        /\ r.correct_prediction <=> r.actual_winner_rank = 1
        /\ r.correct_prediction => r.top_3
        /\ r.top_3 => r.top_5

C20_Witness ==
    /\ vpc = "done"
    /\ Len(predictions) = 4
    /\ main_results[1].actual_winner_rank = 4
    /\ ~main_results[1].top_3
    /\ main_results[1].top_5
    /\ ~main_results[1].correct_prediction

\* The event's match list with other series results in place of its own.
SeriesScores == {<<2, 0>>, <<2, 1>>, <<0, 2>>}

Rescorings(ms) ==
    {[k \in 1..Len(ms) |->
        [ms[k] EXCEPT !.score_a = sc[k][1], !.score_b = sc[k][2]]] :
     sc \in [1..Len(ms) -> SeriesScores]}

\* C21: the rating table and the bracket validate_tournament has built are
\* those it builds from the same training matches and the event's matches
\* with any other scores: the event's matches contribute their team names
\* only, the same teams in the same bracket order.
C21_EventOutcomesNotUsed ==
    (has_event /\ vpc \in {"simulate", "report"} /\ sim_i = 0) =>
        \A other \in Rescorings(tournament_matches) :
            /\ get_tournament_teams(other) = tournament_teams
            /\ ValidateTeamRatings(training_matches, other) = team_ratings
            /\ ValidateBracket(training_matches, other) = bracket_teams

C21_Witness ==
    /\ vpc = "simulate"
    /\ sim_i = 0
    /\ Len(tournament_matches) = 3
    /\ Len(training_matches) = 3
    /\ Len(tournament_teams) = 4
    /\ Len(bracket_teams) = 3
    /\ \E other \in Rescorings(tournament_matches) : other # tournament_matches

\* score (in 1/ScoreScale) is the actual score the specification gives a
\* team that won maps_won and lost maps_lost maps.
IsActualScore(score, maps_won, maps_lost) ==
    IF use_map_scores
    THEN IF maps_won + maps_lost = 0
         THEN 2 * score = ScoreScale
         ELSE score * (maps_won + maps_lost) = maps_won * ScoreScale
    ELSE score = (IF maps_won > maps_lost THEN ScoreScale ELSE 0)

\* C22: for all non-negative map counts calculate_actual_score returns
\* maps_won / (maps_won + maps_lost) in fractional mode, 0.5 for 0-0, and in
\* binary mode 1 if maps_won > maps_lost and 0 otherwise, always within
\* [0, 1]; every recorded rating change was computed from that score.
C22_ActualScore ==
    /\ \A maps_won \in MapCounts, maps_lost \in MapCounts :
          /\ IsActualScore(calculate_actual_score(maps_won, maps_lost),
                           maps_won, maps_lost)
          /\ calculate_actual_score(maps_won, maps_lost) \in 0..ScoreScale
    /\ \A m \in 1..Len(match_history) :
          LET h == match_history[m] IN
          /\ \E actual_a \in 0..ScoreScale :
                /\ IsActualScore(actual_a, h.score[1], h.score[2])
                /\ h.rating_change_a = k_factor *
                      (actual_a - expected_score(h.rating_a_before, h.rating_b_before))
          /\ \E actual_b \in 0..ScoreScale :
                /\ IsActualScore(actual_b, h.score[2], h.score[1])
                /\ h.rating_change_b = k_factor *
                      (actual_b - expected_score(h.rating_b_before, h.rating_a_before))

C22_Witness ==
    /\ use_map_scores
    /\ k_factor = DefaultKFactor
    /\ Len(match_history) = 2
    /\ match_history[1].score = <<2, 0>>
    /\ match_history[2].score = <<0, 0>>
    /\ match_history[2].rating_change_a # 0
    /\ match_history[2].rating_change_a = k_factor *
          (ScoreScale \div 2 - expected_score(match_history[2].rating_a_before,
                                              match_history[2].rating_b_before))

\* Team names in the first n records handed to process_matches.
NamesSeen(n) == UNION {{supplied[m].team_a, supplied[m].team_b} : m \in 1..n}

\* The latest match before match m in which team took part, 0 if none.
PreviousMatchOf(team, m) ==
    LET earlier == {j \in 1..(m - 1) :
                       team \in {match_history[j].team_a, match_history[j].team_b}}
    IN  IF earlier = {} THEN 0 ELSE CHOOSE j \in earlier : \A i \in earlier : i <= j

\* What the table holds for team after the match of h: the entry of team_b
\* is written last.
RatingAfter(h, team) ==
    IF h.team_b = team THEN h.rating_b_after ELSE h.rating_a_after

\* The rating team carries into match m: the initial rating on its first
\* reference, otherwise what its previous match left.
RatingInto(team, m) ==
    IF PreviousMatchOf(team, m) = 0 THEN InitialRating
    ELSE RatingAfter(match_history[PreviousMatchOf(team, m)], team)

\* The state part of C23.
ProcessedInOrder ==
    LET done == Len(match_history) IN
    /\ done + Len(pending) = Len(supplied)
    /\ pending = SubSeq(supplied, done + 1, Len(supplied))
    /\ \A m \in 1..done :
          /\ match_history[m].team_a = supplied[m].team_a
          /\ match_history[m].team_b = supplied[m].team_b
          /\ match_history[m].score = <<supplied[m].score_a, supplied[m].score_b>>
          /\ match_history[m].rating_a_before = RatingInto(supplied[m].team_a, m)
          /\ match_history[m].rating_b_before = RatingInto(supplied[m].team_b, m)
    /\ DOMAIN ratings = NamesSeen(done)

\* The step part of C23: the history only grows at its end and the table
\* keeps every entry.
HistoryAndTableGrow ==
    /\ Len(match_history') >= Len(match_history)
    /\ SubSeq(match_history', 1, Len(match_history)) = match_history
    /\ DOMAIN ratings \subseteq DOMAIN ratings'

\* C23: over any sequence of process_matches calls the updates are applied
\* in the supplied order: the match history lists each processed match once,
\* in processing order, each team entering its match with the initial rating
\* on first reference and with the result of its previous match afterwards;
\* the rating table holds exactly the team names seen so far and never
\* loses an entry.
C23_ProcessedInSuppliedOrder ==
    /\ []ProcessedInOrder
    /\ [][HistoryAndTableGrow]_vars

C23_Witness ==
    /\ pending = <<>>
    /\ Len(match_history) = 3
    /\ DOMAIN ratings = {"A", "B"}
    /\ match_history[1].team_a = "A"
    /\ match_history[2].team_a = "B"
    /\ match_history[3].team_a = "A"
    /\ match_history[3].rating_a_before = match_history[2].rating_b_after
    /\ match_history[3].rating_a_before # match_history[1].rating_a_after

\* Processed matches in which team took part.
MatchesOf(team) ==
    {m \in 1..Len(match_history) :
        team \in {match_history[m].team_a, match_history[m].team_b}}

\* get_rating_history(team) is the trace of team: (0, initial rating), then
\* one entry per match of the team by increasing match index with the rating
\* the table held for the team right after that match, ending at the team's
\* current rating.
IsRatingTrace(team) ==
    LET trace == get_rating_history(team) IN
    /\ trace[1] = [index |-> 0, rating |-> InitialRating]
    /\ Len(trace) = 1 + Cardinality(MatchesOf(team))
    /\ \A j \in 2..Len(trace) :
          /\ trace[j].index \in MatchesOf(team)
          /\ trace[j].index > trace[j - 1].index
          /\ trace[j].rating = RatingAfter(match_history[trace[j].index], team)
    /\ trace[Len(trace)].rating = get_rating(team)

NoTeamMetItself ==
    \A m \in 1..Len(match_history) :
        match_history[m].team_a # match_history[m].team_b

\* C24 as stated: after any sequence of processed matches
\* get_rating_history(team) is the trace of team.
C24_RatingHistoryIsTrace ==
    \A team \in CallTeams : IsRatingTrace(team)

\* C24: after any sequence of processed matches none of which names one
\* team on both sides, get_rating_history(team) is (0, initial_rating)
\* followed by one entry per match of the team in strictly increasing match
\* index, each with the team's rating right after that match, so that the
\* last entry carries the team's current rating.
C24_RatingHistoryOfDistinctTeams ==
    NoTeamMetItself => \A team \in CallTeams : IsRatingTrace(team)

C24_Witness ==
    /\ pending = <<>>
    /\ NoTeamMetItself
    /\ Len(match_history) = 3
    /\ MatchesOf("A") = {1, 3}
    /\ match_history[1].team_a = "A"
    /\ match_history[3].team_b = "A"
    /\ Len(get_rating_history("A")) = 3
    /\ get_rating_history("A")[3] =
          [index |-> 3, rating |-> match_history[3].rating_b_after]
    /\ get_rating_history("A")[3].rating # get_rating_history("A")[2].rating

\* ------------------------------------------------------------------ C25
\* The float 0.5, and a < b, a <= b for floats a, b >= 0.
FloatHalf == [m |-> MantissaMin, e |-> 0 - MantissaBits]

FloatLess(a, b) ==
    IF b.m = 0 THEN FALSE
    ELSE IF a.m = 0 THEN TRUE
    ELSE a.e < b.e \/ (a.e = b.e /\ a.m < b.m)

FloatLeq(a, b) == a = b \/ FloatLess(a, b)

\* The value of series_win_probability(arg_map_win_prob, n), the returned one
\* for the best_of of the call.
SeriesProbOf(n) ==
    IF n = arg_best_of THEN ret_series_prob
    ELSE series_win_probability(arg_map_win_prob, n)

\* The closest probabilities to 0.5 and to 1 for which the strict order holds:
\* one machine epsilon (2^(1-MantissaBits)) away from 0.5, and
\* 2^-(MantissaBits \div 2) below 1, where 3 * (1 - p)^2 is still above
\* the spacing of the floats below 1.
HalfPlusEpsilon == RoundFloat(MantissaMin + 2, 0 - MantissaBits)
HalfMinusEpsilon == RoundFloat(MantissaMin - 2, 0 - MantissaBits)
OneMinusRoot == RoundFloat(MantissaMax - Pow2(MantissaBits \div 2), 0 - MantissaBits)

C26_WinProbabilityStrictlyInside ==
    /\ npc # {} =>
          /\ num_raised = ""
          /\ FloatLess(FloatZero, ret_win_prob)
          /\ FloatLess(ret_win_prob, FloatOne)
    /\ "simulate_match" \in npc =>
          /\ FloatLess(FloatZero, ret_series_prob)
          /\ FloatLess(ret_series_prob, FloatOne)

\* What the code keeps: a call either raises OverflowError or returns a
\* value above 0 and at most 1.
C26_WinProbabilityPositive ==
    /\ (npc # {} /\ num_raised = "") =>
          /\ FloatLess(FloatZero, ret_win_prob)
          /\ FloatLeq(ret_win_prob, FloatOne)
    /\ "simulate_match" \in npc =>
          /\ FloatLess(FloatZero, ret_series_prob)
          /\ FloatLeq(ret_series_prob, FloatOne)

\* A call raised OverflowError.
C26_Raised == npc # {} /\ num_raised = "OverflowError"

\* A call returned exactly 1.0.
C26_ReturnedOne == npc # {} /\ num_raised = "" /\ ret_win_prob = FloatOne

\* ------------------------------------------------------------------ C29
\* Distance of two positive floats in units of the last place of the smaller.
UlpGap(a, b) ==
    LET low == IF a.e < b.e THEN a.e ELSE b.e
        d == a.m * Pow2(a.e - low) - b.m * Pow2(b.e - low)
    IN  IF d < 0 THEN 0 - d ELSE d

\* C29 as stated: the best-of-3 probability predict_tournament_winner
\* computes inline equals series_win_probability(p, 3) for every p.
C29_InlineSeriesEqual ==
    "predict_tournament_winner" \in npc =>
        ret_series_prob_a = series_win_probability(arg_map_win_prob, 3)

\* C29, amended: the inline best-of-3 probability and
\* series_win_probability(p, 3) differ by at most two units in the last place.
C29_InlineSeriesEqualUpToRounding ==
    "predict_tournament_winner" \in npc =>
        UlpGap(ret_series_prob_a, series_win_probability(arg_map_win_prob, 3)) <= 2

\* The inline probability was computed for a p other than 0.5 and agrees
\* with series_win_probability(p, 3).
C29_Witness ==
    /\ "predict_tournament_winner" \in npc
    /\ FloatLess(FloatHalf, arg_map_win_prob)
    /\ FloatLess(arg_map_win_prob, ret_series_prob_a)
    /\ ret_series_prob_a = series_win_probability(arg_map_win_prob, 3)

\* ------------------------------------------------------------------ C27
\* run_simulation has returned or raised on a valid bracket.
AfterRunSimulation ==
    last_call.op = "run_simulation" /\ pc = "idle" /\ ValidBracket

\* The round sizes N, N/2, ..., 2 of the bracket.
RoundSizes == {size \in 2..Len(teams) : IsPowerOfTwo(size)}

\* A counter summed over every team the dictionary holds.
SumOfCounter(key) ==
    SumOver(Names(simulation_results),
            [name \in Names(simulation_results) |->
                Count(simulation_results, name, key)])

IsPercentage(value) == value \in 0..10000

\* C27: after run_simulation(n) on a bracket of N = 2^k teams, whatever
\* trials ran on the simulator before, the reached counters of the round of m
\* sum to m * n for m = N, N/2, ..., 2, no counter of any team exceeds n, and
\* every reported percentage lies in [0, 100].
C27_ReachedCountersSum ==
    AfterRunSimulation =>
        /\ \A size \in RoundSizes : SumOfCounter(ReachedKey(size)) = size * run_n
        /\ \A name \in Names(simulation_results) :
              \A key \in DOMAIN simulation_results[name] :
                  simulation_results[name][key] <= run_n
        /\ \A q \in 1..Len(stats) :
              /\ IsPercentage(stats[q].championship_prob)
              /\ IsPercentage(stats[q].finals_prob)
              /\ IsPercentage(stats[q].semifinals_prob)
              /\ IsPercentage(stats[q].quarterfinals_prob)
              /\ IsPercentage(stats[q].round_of_16_prob)

\* run_simulation(1) returned on a 4-team bracket that had run a trial before.
C27_Witness ==
    /\ AfterRunSimulation
    /\ Len(teams) = 4
    /\ run_n = 1
    /\ started = 2
    /\ Len(stats) = 4
    /\ SumOfCounter("reached_Semifinals") = 4
    /\ SumOfCounter("reached_Finals") = 2

\* ------------------------------------------------------------------ C28
\* Every counter key a trial can write.
CounterKeys == {ChampionshipsKey} \cup {ReachedKey(size) : size \in 1..MaxTeams}

\* A trial is running.
InTrial == pc \in {"while", "play"}

\* Teams of the bracket the running or last trial has eliminated.
Eliminated == Range(teams) \ Range(remaining_teams)

\* A round was played: position i of the next alive list holds the winner of
\* the match between positions 2i-1 and 2i (2i and 2i+1 counted from 0), and
\* the loser is nowhere in the next alive list.
RoundPairsNeighbours ==
    (pc = "play" /\ pc' = "while") =>
        /\ Len(remaining_teams') = Len(remaining_teams) \div 2
        /\ \A i \in 1..Len(remaining_teams') :
              /\ remaining_teams'[i] \in {remaining_teams[2 * i - 1], remaining_teams[2 * i]}
              /\ \E loser \in {remaining_teams[2 * i - 1], remaining_teams[2 * i]} :
                    /\ loser # remaining_teams'[i]
                    /\ loser \notin Range(remaining_teams')

\* Within a trial only a team of the alive list is credited, and the alive
\* list never takes a team back.
CreditsOnlyAlive ==
    /\ \A i \in 1..Len(all_teams) : \A key \in CounterKeys :
          Count(simulation_results', NameOf(i), key)
              > Count(simulation_results, NameOf(i), key)
          => (InTrial /\ i \in Range(remaining_teams))
    /\ InTrial => Range(remaining_teams') \subseteq Range(remaining_teams)

\* A team the trial has eliminated holds no credit of this trial for the
\* current or a later round, nor a championship.
LosersNotCredited ==
    (InTrial \/ champion # 0) =>
        \A i \in Eliminated :
            /\ Credited(NameOf(i), ChampionshipsKey) = 0
            /\ \A size \in 1..Len(remaining_teams) :
                  Credited(NameOf(i), ReachedKey(size)) = 0

\* C28: within a trial the teams paired in a match are the neighbours at
\* positions 2i and 2i+1 of the alive list, exactly one of them, the winner,
\* is at position i of the next round, and a team that has lost is credited
\* with no later round and no championship in that trial.
C28_PairedNeighboursLoserOut ==
    /\ []LosersNotCredited
    /\ [][RoundPairsNeighbours /\ CreditsOnlyAlive]_vars

\* A 4-team trial has returned: a semifinal loser holds its Semifinals credit
\* and no Finals credit, the final's loser holds a Finals credit and no
\* championship.
C28_Witness ==
    /\ champion # 0
    /\ Len(teams) = 4
    /\ rounds = 2
    /\ \E i \in Eliminated :
          /\ Credited(NameOf(i), "reached_Semifinals") = 1
          /\ Credited(NameOf(i), "reached_Finals") = 0
    /\ \E i \in Eliminated :
          /\ Credited(NameOf(i), "reached_Finals") = 1
          /\ Credited(NameOf(i), ChampionshipsKey) = 0

\* ------------------------------------------------------------------ C30
StatusRank(status) ==
    IF status = "none" THEN 0
    ELSE IF status = "pending" THEN 1
    ELSE IF status = "running" THEN 2
    ELSE 3

\* PENDING -> RUNNING -> COMPLETED or FAILED, one step at a time, never back.
StatusMovesForward ==
    svc_status' # svc_status =>
        /\ StatusRank(svc_status') = StatusRank(svc_status) + 1
        /\ svc_status \notin {"completed", "failed"}

\* The call returned: COMPLETED with results stored.
ReturnedCompleted ==
    svc_pc = "returned" =>
        /\ svc_status = "completed"
        /\ svc_results.stored
        /\ svc_exception = ""

\* The call raised: FAILED with the error message, no results, and the
\* exception reached the caller.
RaisedFailed ==
    svc_pc = "raised" =>
        /\ svc_status = "failed"
        /\ svc_error # ""
        /\ ~svc_results.stored
        /\ svc_exception # ""

\* The temporary teams file is gone when the call is over.
TempFileRemoved == svc_pc \in {"returned", "raised"} => temp_files = 0

\* C30 as stated: the record moves PENDING -> RUNNING -> COMPLETED or FAILED
\* and never backwards; when the call returns the record is COMPLETED with
\* results stored; when it raises the record is FAILED with the error message
\* and no results and the exception reaches the caller; in both cases the
\* temporary teams file has been removed.
C30_ServiceLifecycle ==
    /\ [](ReturnedCompleted /\ RaisedFailed /\ TempFileRemoved)
    /\ [][StatusMovesForward]_vars

\* What holds of the code: everything but the removal of the file.
C30_ServiceLifecycleButFile ==
    /\ [](ReturnedCompleted /\ RaisedFailed)
    /\ [][StatusMovesForward]_vars

\* The file is removed whenever the teams were written to it.
C30_FileRemovedWhenWritten ==
    (svc_pc \in {"returned", "raised"} /\ svc_args.serializable) => temp_files = 0

\* The call raised and left its temporary file behind.
C30_FileLeft == svc_pc = "raised" /\ temp_files = 1

====
